---------------------------- MODULE Spec2Model ----------------------------
(***************************************************************************)
(* A model of muzu's routing core: the per-method route trie               *)
(* (src/lib/routing/route-tree.ts), the RouteManager that owns one trie    *)
(* per HTTP method, the compiled path/query parser and the request         *)
(* dispatcher (RequestHandler.handleRequest).                              *)
(*                                                                         *)
(* Strings of the program are sequences of one-character strings, so that  *)
(* splitting, lower-casing, prefix tests and query stripping are computed  *)
(* and not assumed.  An optional value (T | undefined) is a sequence of    *)
(* length 0 or 1.                                                          *)
(***************************************************************************)
EXTENDS Integers, Sequences, FiniteSets, TLC

(***************************************************************************)
(* Bounds of the model.                                                    *)
(***************************************************************************)
\* the number of RouteManager.addRoute calls a behaviour makes
MaxRoutes == 3

\* the most '&'-separated pairs in a query string handed to the path parser
MaxPairs == 2

\* the most rules the decorators add to the first property of a DTO class
MaxRules == 2

\* the nested calls of compileValidator the call stack has room for
MaxStack == 3

\* the most requests suspended at an await while another request is served
MaxInFlight == 1

(***************************************************************************)
(* String and object primitives of the JavaScript runtime.                 *)
(***************************************************************************)
PARAM_PREFIX == ":"

PATH_SEPARATOR == "/"

\* String.prototype.toLowerCase, on the alphabet of the model
ToLowerChar(c) ==
  CASE c = "A" -> "a"
    [] c = "B" -> "b"
    [] c = "C" -> "c"
    [] c = "X" -> "x"
    [] OTHER -> c

toLowerCase(s) == [i \in 1..Len(s) |-> ToLowerChar(s[i])]

\* String.prototype.indexOf(c): the 0-based index of the first c, or -1
indexOf(s, c) ==
  IF \E i \in 1..Len(s) : s[i] = c
    THEN (CHOOSE i \in 1..Len(s) : s[i] = c /\ \A j \in 1..(i - 1) : s[j] # c) - 1
    ELSE -1

\* String.prototype.substring(from, to), 0-based, to exclusive
substring(s, from, to) == SubSeq(s, from + 1, to)

\* String.prototype.split(sep) for a one-character separator: the pieces
\* between separators, empty pieces kept
RECURSIVE SplitFrom(_, _, _, _, _)
SplitFrom(s, sep, i, cur, acc) ==
  IF i > Len(s) THEN Append(acc, cur)
  ELSE IF s[i] = sep THEN SplitFrom(s, sep, i + 1, <<>>, Append(acc, cur))
  ELSE SplitFrom(s, sep, i + 1, Append(cur, s[i]), acc)

split(s, sep) == SplitFrom(s, sep, 1, <<>>, <<>>)

\* Array.prototype.filter(segment => segment.length > 0)
RECURSIVE FilterNonEmpty(_)
FilterNonEmpty(seq) ==
  IF seq = <<>> THEN <<>>
  ELSE IF Len(Head(seq)) > 0 THEN <<Head(seq)>> \o FilterNonEmpty(Tail(seq))
  ELSE FilterNonEmpty(Tail(seq))

\* Array.prototype.join
RECURSIVE Concat(_)
Concat(seqs) == IF seqs = <<>> THEN <<>> ELSE Head(seqs) \o Concat(Tail(seqs))

\* delete obj[key]
DeleteKey(obj, key) == [k \in DOMAIN obj \ {key} |-> obj[k]]

\* obj[key] = value
SetKey(obj, key, value) == [k \in DOMAIN obj \cup {key} |-> IF k = key THEN value ELSE obj[k]]

\* mutant: {...b, ...a}
SpreadFirstWins(a, b) == [k \in DOMAIN a \cup DOMAIN b |-> IF k \in DOMAIN a THEN a[k] ELSE b[k]]

\* {...a, ...b}
Spread(a, b) == [k \in DOMAIN a \cup DOMAIN b |-> IF k \in DOMAIN b THEN b[k] ELSE a[k]]

\* the empty object {}
EmptyObject == <<>>


(***************************************************************************)
(* Route metadata (routing/route-metadata).                                *)
(*                                                                         *)
(* A handler or middleware function is a record of what the program reads  *)
(* of it: its identity, whether it is a native AsyncFunction, what its     *)
(* source text mentions, and what a call of it does.                       *)
(***************************************************************************)
\* composeMiddlewares: none for no middleware, the middleware itself for
\* one, one async function running them in order for two or more
composeMiddlewares(middlewares) ==
  IF middlewares = <<>> \/ Len(middlewares[1]) = 0 THEN <<>>
  ELSE IF Len(middlewares[1]) = 1
    THEN << [kind |-> "single", mws |-> middlewares[1]] >>
    ELSE << [kind |-> "composed", mws |-> middlewares[1]] >>

\* isAsyncFunction: a native async function, or a source text mentioning
\* 'async ', 'Promise' or 'await '
isAsyncFunction(fn) == fn.asyncCtor \/ fn.srcAsync

\* String.prototype.toUpperCase on the method names of the model
MethodUpper(method) ==
  CASE method = "post" -> "POST"
    [] method = "get" -> "GET"
    [] OTHER -> method

\* mutant: PATCH is not a body method
requiresBodyParsingNoPatch(method) ==
  LET methodUpper == MethodUpper(method)
  IN  methodUpper = "POST" \/ methodUpper = "PUT"

requiresBodyParsing(method) ==
  LET methodUpper == MethodUpper(method)
  IN  methodUpper = "POST" \/ methodUpper = "PUT" \/ methodUpper = "PATCH"

(***************************************************************************)
(* The route trie (routing/route-node, routing/route-tree).                *)
(*                                                                         *)
(* A trie is a function from node paths to nodes.  The path of a node is   *)
(* the sequence of keys from the root: the key of a static child is the    *)
(* key of the parent's children Map (a string, i.e. a sequence of          *)
(* characters), the key of the paramChild field is PARAM_KEY, which is no  *)
(* string.  A node keeps the keys of its children Map in insertion order,  *)
(* the order the Map iterates in.                                          *)
(***************************************************************************)
STATIC == "static"

PARAM == "param"

PARAM_KEY == <<"paramChild">>

createNode(segment, type, paramName) ==
  [segment |-> segment, type |-> type, paramName |-> paramName,
   children |-> <<>>, paramChild |-> FALSE, metadata |-> <<>>]

\* new RouteTree()
NewRouteTree == (<<>> :> createNode(<<>>, STATIC, <<>>))

isParamSegment(segment) == Len(segment) >= 1 /\ segment[1] = PARAM_PREFIX

extractParamName(segment) == SubSeq(segment, 2, Len(segment))

\* mutant: static segments keep their case
normalizeSegmentKeepCase(segment) == segment

normalizeSegment(segment) ==
  IF isParamSegment(segment) THEN segment ELSE toLowerCase(segment)

splitPathIntoSegments(path) ==
  LET kept == FilterNonEmpty(split(path, PATH_SEPARATOR))
  IN  [i \in 1..Len(kept) |-> normalizeSegment(kept[i])]

\* mutant: a later route renames the parametric child
getOrCreateParamChildRename(tree, parent, segment) ==
  LET child == Append(parent, PARAM_KEY)
  IN  IF ~tree[parent].paramChild
        THEN [tree |-> (child :> createNode(segment, PARAM, <<extractParamName(segment)>>))
                        @@ [tree EXCEPT ![parent].paramChild = TRUE],
              node |-> child]
        ELSE [tree |-> [tree EXCEPT ![child].paramName = <<extractParamName(segment)>>,
                                    ![child].segment = segment],
              node |-> child]

getOrCreateParamChild(tree, parent, segment) ==
  LET child == Append(parent, PARAM_KEY)
  IN  IF ~tree[parent].paramChild
        THEN [tree |-> (child :> createNode(segment, PARAM, <<extractParamName(segment)>>))
                        @@ [tree EXCEPT ![parent].paramChild = TRUE],
              node |-> child]
        ELSE [tree |-> tree, node |-> child]

getOrCreateStaticChild(tree, parent, segment) ==
  LET child == Append(parent, segment)
  IN  IF child \notin DOMAIN tree
        THEN [tree |-> (child :> createNode(segment, STATIC, <<>>))
                        @@ [tree EXCEPT ![parent].children = Append(@, segment)],
              node |-> child]
        ELSE [tree |-> tree, node |-> child]

getOrCreateChildNode(tree, parent, segment) ==
  IF isParamSegment(segment)
    THEN getOrCreateParamChild(tree, parent, segment)
    ELSE getOrCreateStaticChild(tree, parent, segment)

\* the loop of traverseAndCreateNodes from its i-th segment on
RECURSIVE traverseFrom(_, _, _, _)
traverseFrom(tree, segments, i, currentNode) ==
  IF i > Len(segments) THEN [tree |-> tree, node |-> currentNode]
  ELSE LET r == getOrCreateChildNode(tree, currentNode, segments[i])
       IN  traverseFrom(r.tree, segments, i + 1, r.node)

traverseAndCreateNodes(tree, segments) == traverseFrom(tree, segments, 1, <<>>)

\* mutant: the handler's text decides even when a flag is given
compileRouteMetadataHeuristic(handler, middlewares, method, hasQueryParams) ==
  [handler |-> handler,
   composedMiddleware |-> composeMiddlewares(middlewares),
   isAsync |-> isAsyncFunction(handler),
   requiresBody |-> IF method # "" THEN requiresBodyParsing(method) ELSE TRUE,
   hasQueryParams |-> handler.srcParams,
   method |-> IF method # "" THEN method ELSE "GET"]

compileRouteMetadata(handler, middlewares, method, hasQueryParams) ==
  LET queryParamsDetected ==
        IF hasQueryParams = <<>> THEN handler.srcParams ELSE hasQueryParams[1]
  IN  [handler |-> handler,
       composedMiddleware |-> composeMiddlewares(middlewares),
       isAsync |-> isAsyncFunction(handler),
       requiresBody |-> IF method # "" THEN requiresBodyParsing(method) ELSE TRUE,
       hasQueryParams |-> queryParamsDetected,
       method |-> IF method # "" THEN method ELSE "GET"]

\* the validators RouteManager.addRoute hands to insert, kept on the metadata
\* the dispatcher reads them from
attachValidators(metadata, bodyValidator, queryValidator) ==
  [handler |-> metadata.handler,
   composedMiddleware |-> metadata.composedMiddleware,
   isAsync |-> metadata.isAsync,
   requiresBody |-> metadata.requiresBody,
   hasQueryParams |-> metadata.hasQueryParams,
   method |-> metadata.method,
   bodyValidator |-> bodyValidator,
   queryValidator |-> queryValidator]

insert(tree, path, handler, middlewares, method, hasQueryParams, bodyValidator, queryValidator) ==
  LET segments == splitPathIntoSegments(path)
      leaf == traverseAndCreateNodes(tree, segments)
      metadata == attachValidators(
                    compileRouteMetadata(handler, middlewares, method, hasQueryParams),
                    bodyValidator, queryValidator)
  IN  [leaf.tree EXCEPT ![leaf.node].metadata = <<metadata>>]

hasMatchedAllSegments(index, totalSegments) == index = totalSegments

\* mutant: a node counts as a match whether or not it holds metadata
hasHandlerAlways(tree, node) == TRUE

hasHandler(tree, node) == tree[node].metadata # <<>>

\* a search step's outcome: the matched node (or none) and the params object,
\* which the recursion mutates in place
RECURSIVE findMatchingNode(_, _, _, _, _)
RECURSIVE tryStaticMatch(_, _, _, _, _, _)
RECURSIVE tryParamMatch(_, _, _, _, _, _)

tryStaticMatch(tree, node, segment, segments, index, params) ==
  LET staticChild == Append(node, segment)
  IN  IF staticChild \notin DOMAIN tree
        THEN [node |-> <<>>, params |-> params]
        ELSE findMatchingNode(tree, staticChild, segments, index + 1, params)

tryParamMatch(tree, node, segment, segments, index, params) ==
  IF ~tree[node].paramChild
    THEN [node |-> <<>>, params |-> params]
    ELSE LET paramChild == Append(node, PARAM_KEY)
             paramName == tree[paramChild].paramName[1]
             result == findMatchingNode(tree, paramChild, segments, index + 1,
                                        SetKey(params, paramName, segment))
         IN  IF result.node # <<>>
               THEN result
               ELSE [node |-> <<>>, params |-> DeleteKey(result.params, paramName)]

\* mutant: an existing static child decides, the parametric child is tried
\* only where no static child of that text exists
findMatchingNodeNoBacktrack(tree, node, segments, segmentIndex, params) ==
  IF hasMatchedAllSegments(segmentIndex, Len(segments))
    THEN [node |-> IF hasHandler(tree, node) THEN <<node>> ELSE <<>>, params |-> params]
    ELSE LET currentSegment == segments[segmentIndex + 1]
         IN  IF Append(node, currentSegment) \in DOMAIN tree
               THEN tryStaticMatch(tree, node, currentSegment, segments,
                                   segmentIndex, params)
               ELSE tryParamMatch(tree, node, currentSegment, segments,
                                  segmentIndex, params)

\* mutant: the parametric child is tried before the static child
findMatchingNodeParamFirst(tree, node, segments, segmentIndex, params) ==
  IF hasMatchedAllSegments(segmentIndex, Len(segments))
    THEN [node |-> IF hasHandler(tree, node) THEN <<node>> ELSE <<>>, params |-> params]
    ELSE LET currentSegment == segments[segmentIndex + 1]
             paramMatch == tryParamMatch(tree, node, currentSegment, segments,
                                         segmentIndex, params)
         IN  IF paramMatch.node # <<>>
               THEN paramMatch
               ELSE tryStaticMatch(tree, node, currentSegment, segments,
                                   segmentIndex, paramMatch.params)

findMatchingNode(tree, node, segments, segmentIndex, params) ==
  IF hasMatchedAllSegments(segmentIndex, Len(segments))
    THEN [node |-> IF hasHandler(tree, node) THEN <<node>> ELSE <<>>, params |-> params]
    ELSE LET currentSegment == segments[segmentIndex + 1]
             staticMatch == tryStaticMatch(tree, node, currentSegment, segments,
                                           segmentIndex, params)
         IN  IF staticMatch.node # <<>>
               THEN staticMatch
               ELSE tryParamMatch(tree, node, currentSegment, segments,
                                  segmentIndex, staticMatch.params)

createSuccessResult(tree, node, params) ==
  [metadata |-> tree[node].metadata, params |-> params]

createEmptyResult == [metadata |-> <<>>, params |-> EmptyObject]

search(tree, path) ==
  LET segments == splitPathIntoSegments(path)
      matched == findMatchingNode(tree, <<>>, segments, 0, EmptyObject)
  IN  IF matched.node # <<>>
        THEN createSuccessResult(tree, matched.node[1], matched.params)
        ELSE createEmptyResult

buildPathString(currentPath, segment) ==
  currentPath \o (IF segment # <<>> THEN <<PATH_SEPARATOR>> \o segment ELSE <<>>)

\* collectRoutes: the node itself, its static children in Map order, then
\* its parametric child
RECURSIVE collectRoutes(_, _, _)
RECURSIVE collectChildren(_, _, _, _)
collectChildren(tree, node, path, i) ==
  IF i > Len(tree[node].children) THEN <<>>
  ELSE collectRoutes(tree, Append(node, tree[node].children[i]), path)
         \o collectChildren(tree, node, path, i + 1)

collectRoutes(tree, node, currentPath) ==
  LET path == buildPathString(currentPath, tree[node].segment)
  IN  (IF tree[node].metadata # <<>>
         THEN << [path |-> IF path # <<>> THEN path ELSE <<PATH_SEPARATOR>>,
                  handler |-> tree[node].metadata[1].handler] >>
         ELSE <<>>)
      \o collectChildren(tree, node, path, 1)
      \o (IF tree[node].paramChild
            THEN collectRoutes(tree, Append(node, PARAM_KEY), path)
            ELSE <<>>)

getAllRoutes(tree) == collectRoutes(tree, <<>>, <<>>)


(***************************************************************************)
(* The compiled path/query parser (routing/path-parser).                   *)
(***************************************************************************)
\* the value of two hexadecimal digits after '%', for the escapes the model
\* uses: %20, %2F, %41; no other pair is a hexadecimal number here
HexPairChar(a, b) ==
  CASE a = "2" /\ b = "0" -> <<" ">>
    [] a = "2" /\ b = "F" -> <<"/">>
    [] a = "4" /\ b = "1" -> <<"A">>
    [] OTHER -> <<>>

\* decodeURIComponent from the i-th character on: the decoded text, or
\* a URIError for a '%' that two hexadecimal digits do not follow
RECURSIVE DecodeFrom(_, _, _)
DecodeFrom(s, i, acc) ==
  IF i > Len(s) THEN [threw |-> FALSE, value |-> acc]
  ELSE IF s[i] # "%" THEN DecodeFrom(s, i + 1, Append(acc, s[i]))
  ELSE IF i + 2 > Len(s) \/ HexPairChar(s[i + 1], s[i + 2]) = <<>>
    THEN [threw |-> TRUE, value |-> <<>>]
    ELSE DecodeFrom(s, i + 3, acc \o HexPairChar(s[i + 1], s[i + 2]))

decodeURIComponent(s) == DecodeFrom(s, 1, <<>>)

\* mutant: the first pair of a key wins
RECURSIVE ParsePairsFromFirstWins(_, _, _)
ParsePairsFromFirstWins(pairs, i, params) ==
  IF i > Len(pairs) THEN [threw |-> FALSE, value |-> params]
  ELSE LET pair == pairs[i]
           equalsIndex == indexOf(pair, "=")
           key == IF equalsIndex = -1 THEN pair ELSE substring(pair, 0, equalsIndex)
           value == IF equalsIndex = -1 THEN <<>>
                    ELSE substring(pair, equalsIndex + 1, Len(pair))
       IN  IF key = <<>> THEN ParsePairsFromFirstWins(pairs, i + 1, params)
           ELSE IF value # <<>> /\ decodeURIComponent(value).threw
             THEN [threw |-> TRUE, value |-> EmptyObject]
           ELSE IF key \in DOMAIN params
             THEN ParsePairsFromFirstWins(pairs, i + 1, params)
           ELSE ParsePairsFromFirstWins(
                  pairs, i + 1,
                  SetKey(params, key,
                         IF value = <<>> THEN <<>> ELSE decodeURIComponent(value).value))

\* the loop of parseQueryString from the i-th pair on
RECURSIVE ParsePairsFrom(_, _, _)
ParsePairsFrom(pairs, i, params) ==
  IF i > Len(pairs) THEN [threw |-> FALSE, value |-> params]
  ELSE LET pair == pairs[i]
           equalsIndex == indexOf(pair, "=")
           key == substring(pair, 0, equalsIndex)
           value == substring(pair, equalsIndex + 1, Len(pair))
       IN  IF pair = <<>> THEN ParsePairsFrom(pairs, i + 1, params)
           ELSE IF equalsIndex = -1
             THEN ParsePairsFrom(pairs, i + 1, SetKey(params, pair, <<>>))
           ELSE IF key = <<>> THEN ParsePairsFrom(pairs, i + 1, params)
           ELSE IF value = <<>>
             THEN ParsePairsFrom(pairs, i + 1, SetKey(params, key, <<>>))
           ELSE IF decodeURIComponent(value).threw
             THEN [threw |-> TRUE, value |-> EmptyObject]
           ELSE ParsePairsFrom(pairs, i + 1,
                               SetKey(params, key, decodeURIComponent(value).value))

parseQueryString(queryString) ==
  IF queryString = <<>> THEN [threw |-> FALSE, value |-> EmptyObject]
  ELSE ParsePairsFrom(split(queryString, "&"), 1, EmptyObject)

\* the closure compilePathParser(hasQueryParams) returns, applied to a URL:
\* {path, queryParams}, or the URIError thrown while decoding
compilePathParser(hasQueryParams, url) ==
  LET queryIndex == indexOf(url, "?")
  IN  IF ~hasQueryParams
        THEN [threw |-> FALSE,
              path |-> IF queryIndex = -1 THEN url ELSE substring(url, 0, queryIndex),
              queryParams |-> EmptyObject]
      ELSE IF queryIndex = -1
        THEN [threw |-> FALSE, path |-> url, queryParams |-> EmptyObject]
      ELSE LET parsed == parseQueryString(substring(url, queryIndex + 1, Len(url)))
           IN  [threw |-> parsed.threw,
                path |-> substring(url, 0, queryIndex),
                queryParams |-> parsed.value]

(***************************************************************************)
(* RouteManager (routing/route-manager): one trie per HTTP method.  The    *)
(* trees Map is a sequence of [method, tree] entries in insertion order.   *)
(***************************************************************************)
hasTree(trees, method) == \E i \in 1..Len(trees) : trees[i].method = method

treeIndex(trees, method) == CHOOSE i \in 1..Len(trees) : trees[i].method = method

getOrCreateTree(trees, method) ==
  IF hasTree(trees, method) THEN trees
  ELSE Append(trees, [method |-> method, tree |-> NewRouteTree])

addRoute(trees, route) ==
  LET withTree == getOrCreateTree(trees, route.method)
      i == treeIndex(withTree, route.method)
  IN  [withTree EXCEPT ![i].tree =
         insert(@, route.url, route.handler, route.middlewares, route.method,
                route.hasQueryParams, route.bodyValidator, route.queryValidator)]

\* routes.forEach(route => this.addRoute(route))
RECURSIVE addRoutes(_, _)
addRoutes(trees, routes) ==
  IF routes = <<>> THEN trees
  ELSE addRoutes(addRoute(trees, Head(routes)), Tail(routes))

\* mutant: the query string stays on the path
stripQueryKeep(url) == url

stripQuery(url) ==
  LET queryIndex == indexOf(url, "?")
  IN  IF queryIndex = -1 THEN url ELSE substring(url, 0, queryIndex)

find(trees, url, method) ==
  IF method = "" THEN [metadata |-> <<>>, params |-> EmptyObject]
  ELSE LET path == stripQuery(url)
       IN  IF ~hasTree(trees, method)
             THEN [metadata |-> <<>>, params |-> EmptyObject]
             ELSE search(trees[treeIndex(trees, method)].tree, path)

RECURSIVE getRoutesFrom(_, _)
getRoutesFrom(trees, i) ==
  IF i > Len(trees) THEN <<>>
  ELSE LET treeRoutes == getAllRoutes(trees[i].tree)
       IN  [k \in 1..Len(treeRoutes) |->
              [method |-> trees[i].method, url |-> treeRoutes[k].path,
               handler |-> treeRoutes[k].handler]]
           \o getRoutesFrom(trees, i + 1)

getRoutes(trees) == getRoutesFrom(trees, 1)

(***************************************************************************)
(* JavaScript values: a value is a record with its type t and, by type,    *)
(* its content v (the text of a string, the number, the fields of an       *)
(* object).                                                                *)
(***************************************************************************)
JUndefined == [t |-> "undefined"]

JNull == [t |-> "null"]

JNumber(n) == [t |-> "number", v |-> n]

JString(text) == [t |-> "string", v |-> text]

JObject(fields) == [t |-> "object", v |-> fields]

\* an array of values
JArray(items) == [t |-> "array", v |-> items]

\* an object that refers to itself
JCircular == [t |-> "circular"]

\* a Promise object, whatever it settles to
JPromise == [t |-> "promise"]

\* ToBoolean(value)
Truthy(value) ==
  CASE value.t = "undefined" -> FALSE
    [] value.t = "null" -> FALSE
    [] value.t = "number" -> value.v # 0
    [] value.t = "string" -> value.v # <<>>
    [] OTHER -> TRUE

\* obj.key for a value that is not null or undefined
GetProperty(obj, key) ==
  IF obj.t = "object" /\ key \in DOMAIN obj.v THEN obj.v[key] ELSE JUndefined

\* an object of strings (req.params) as a value
StringMap(params) == JObject([k \in DOMAIN params |-> JString(params[k])])

\* JSON.parse on the body texts of the model: the value, or a SyntaxError
JSONparse(text) ==
  CASE text = "{}" -> [threw |-> FALSE, value |-> JObject(EmptyObject)]
    [] text = "{\"n\":\"v\"}" ->
         [threw |-> FALSE, value |-> JObject(<<"n">> :> JString(<<"v">>))]
    [] text = "null" -> [threw |-> FALSE, value |-> JNull]
    [] text = "0" -> [threw |-> FALSE, value |-> JNumber(0)]
    [] OTHER -> [threw |-> TRUE, value |-> JUndefined]

\* the decimal digits of the numbers of the model
DigitsOf(n) ==
  CASE n = 0 -> <<"0">>
    [] n = 1 -> <<"1">>
    [] n = 2 -> <<"2">>
    [] OTHER -> <<"9">>

\* JSON.stringify(value): the text, no text for undefined, or the TypeError
\* for a circular structure.  A Promise has no enumerable property of its
\* own.  The objects of the model have at most one property, so the order
\* of the properties is theirs.
RECURSIVE JSONstringify(_)
RECURSIVE StringifyItems(_, _)
JSONstringify(value) ==
  CASE value.t = "undefined" -> [threw |-> FALSE, text |-> <<>>]
    [] value.t = "array" -> StringifyItems(value.v, 1)
    [] value.t = "circular" -> [threw |-> TRUE, text |-> <<>>]
    [] value.t = "promise" -> [threw |-> FALSE, text |-> << <<"{", "}">> >>]
    [] value.t = "null" -> [threw |-> FALSE, text |-> << <<"n", "u", "l", "l">> >>]
    [] value.t = "number" -> [threw |-> FALSE, text |-> <<DigitsOf(value.v)>>]
    [] value.t = "string" ->
         [threw |-> FALSE, text |-> << <<"\"">> \o value.v \o <<"\"">> >>]
    [] OTHER ->
         IF DOMAIN value.v = {} THEN [threw |-> FALSE, text |-> << <<"{", "}">> >>]
         ELSE LET key == CHOOSE k \in DOMAIN value.v : TRUE
                  inner == JSONstringify(value.v[key])
              IN  IF inner.threw THEN inner
                  ELSE IF inner.text = <<>>
                    THEN [threw |-> FALSE, text |-> << <<"{", "}">> >>]
                  ELSE [threw |-> FALSE,
                        text |-> << <<"{", "\"">> \o key \o <<"\"", ":">>
                                    \o inner.text[1] \o <<"}">> >>]

\* JSON.stringify of an array from its i-th item on, the opening bracket
\* included for i = 1: an undefined item is written null
StringifyItems(items, i) ==
  IF i > Len(items)
    THEN [threw |-> FALSE, text |-> << (IF i = 1 THEN <<"[">> ELSE <<>>) \o <<"]">> >>]
  ELSE LET item == JSONstringify(items[i])
           rest == StringifyItems(items, i + 1)
       IN  IF item.threw \/ rest.threw THEN [threw |-> TRUE, text |-> <<>>]
           ELSE [threw |-> FALSE,
                 text |-> << (IF i = 1 THEN <<"[">> ELSE <<",">>)
                             \o (IF item.text = <<>> THEN <<"n", "u", "l", "l">>
                                 ELSE item.text[1])
                             \o rest.text[1] >>]

(***************************************************************************)
(* Compiled validators (validation/compiler).  A compiled validator is the *)
(* list of PropertyValidation records its code was generated from;         *)
(* validate runs the generated checks.                                     *)
(***************************************************************************)
ValidationError(field, constraint, value, message) ==
  [field |-> field, constraint |-> constraint, value |-> value, message |-> message]

\* an error message: the property name, the template's text after it and
\* the rule value the template interpolates (0 when it has none)
Message(prop, text, arg) == [prop |-> prop, text |-> text, arg |-> arg]

\* the rule a validation decorator adds to a property: IsString() is
\* createValidationDecorator("isString", 0), MinLength(2) is
\* createValidationDecorator("minLength", 2)
createValidationDecorator(constraint, value) == [constraint |-> constraint, value |-> value]

\* the DTO classes, each the list of its properties with the rules their
\* decorators added in insertion order; an ArrayItem decorator holds a thunk
\* that yields a class, here the class's name:
\*   class TagDto  { @IsRequired() @MinLength(2) @IsString() k }
\*   class PostDto { @ArrayItem(() => TagDto) c }
\*   class NodeDto { @IsString() k; @ArrayItem(() => NodeDto) c }
\*   class BodyDto { @MinLength(1) @IsString() @IsRequired() n }
DtoClassOf(name) ==
  CASE name = "TagDto" ->
         << [propertyKey |-> <<"k">>,
             rules |-> << createValidationDecorator("isString", 0), createValidationDecorator("minLength", 2),
                          createValidationDecorator("isRequired", 0) >>] >>
    [] name = "PostDto" ->
         << [propertyKey |-> <<"c">>, rules |-> <<createValidationDecorator("arrayItem", "TagDto")>>] >>
    [] name = "NodeDto" ->
         << [propertyKey |-> <<"k">>, rules |-> <<createValidationDecorator("isString", 0)>>],
            [propertyKey |-> <<"c">>, rules |-> <<createValidationDecorator("arrayItem", "NodeDto")>>] >>
    [] name = "BodyDto" ->
         << [propertyKey |-> <<"n">>,
             rules |-> << createValidationDecorator("isRequired", 0), createValidationDecorator("isString", 0),
                          createValidationDecorator("minLength", 1) >>] >>

\* compileValidator(dtoClass) throws: for the first arrayItem rule of each
\* property it calls itself on the class the thunk yields, and a chain of
\* calls deeper than the call stack ends in a RangeError
RECURSIVE CompileThrows(_, _)
CompileThrows(dto, depth) ==
  \/ depth > MaxStack
  \/ \E p \in 1..Len(dto) :
       LET rules == dto[p].rules
           arrayItemRules == {r \in 1..Len(rules) : rules[r].constraint = "arrayItem"}
           arrayItemRule == CHOOSE r \in arrayItemRules : \A q \in arrayItemRules : r <= q
       IN  /\ arrayItemRules # {}
           /\ CompileThrows(DtoClassOf(rules[arrayItemRule].value), depth + 1)

\* compileValidator(dtoClass) when it returns: the PropertyValidation list of
\* the properties that have rules (the validator of an arrayItem rule's class,
\* compiled along with it, is looked up where the rule is checked)
RECURSIVE compileValidator(_)
compileValidator(dto) ==
  IF dto = <<>> THEN <<>>
  ELSE LET rules == Head(dto).rules
           isOptional == \E i \in 1..Len(rules) : rules[i].constraint = "isOptional"
       IN  (IF Len(rules) = 0 THEN <<>>
            ELSE << [propertyKey |-> Head(dto).propertyKey, rules |-> rules,
                     isOptional |-> isOptional] >>)
           \o compileValidator(Tail(dto))

RECURSIVE ValidateFrom(_, _, _)

\* the errors of the items of an array under an arrayItem rule, from the
\* i-th item on: the nested validator's errors with the field re-named
RECURSIVE ItemErrorsFrom(_, _, _, _)
ItemErrorsFrom(prop, nested, items, i) ==
  IF i > Len(items) THEN <<>>
  ELSE LET itemErrors == ValidateFrom(nested, 1, items[i])
       IN  [k \in 1..Len(itemErrors) |->
              [itemErrors[k] EXCEPT
                 !.field = prop \o <<"[">> \o DigitsOf(i - 1) \o <<"]", ".">> \o @]]
           \o ItemErrorsFrom(prop, nested, items, i + 1)

\* mutant: isPositive and isNegative pass over a value that is not a number
NumericBoundErrorsNumbersOnly(prop, rule, value) ==
  IF value.t # "number" THEN <<>>
  ELSE CASE rule.constraint = "isPositive" ->
              IF value.v <= 0
                THEN <<ValidationError(prop, "isPositive", value,
                                       Message(prop, " must be a positive number", 0))>>
                ELSE <<>>
         [] rule.constraint = "isNegative" ->
              IF value.v >= 0
                THEN <<ValidationError(prop, "isNegative", value,
                                       Message(prop, " must be a negative number", 0))>>
                ELSE <<>>
         [] rule.constraint = "min" ->
              IF value.v < rule.value
                THEN <<ValidationError(prop, "min", value,
                                       Message(prop, " must be at least {}", rule.value))>>
                ELSE <<>>
         [] rule.constraint = "max" ->
              IF value.v > rule.value
                THEN <<ValidationError(prop, "max", value,
                                       Message(prop, " must be at most {}", rule.value))>>
                ELSE <<>>

\* the checks constraintHandlers generates for isPositive, isNegative, min and
\* max
NumericBoundErrors(prop, rule, value) ==
  CASE rule.constraint = "isPositive" ->
         IF value.t # "number" \/ value.v <= 0
           THEN <<ValidationError(prop, "isPositive", value,
                                  Message(prop, " must be a positive number", 0))>>
           ELSE <<>>
    [] rule.constraint = "isNegative" ->
         IF value.t # "number" \/ value.v >= 0
           THEN <<ValidationError(prop, "isNegative", value,
                                  Message(prop, " must be a negative number", 0))>>
           ELSE <<>>
    [] rule.constraint = "min" ->
         IF value.t = "number" /\ value.v < rule.value
           THEN <<ValidationError(prop, "min", value,
                                  Message(prop, " must be at least {}", rule.value))>>
           ELSE <<>>
    [] rule.constraint = "max" ->
         IF value.t = "number" /\ value.v > rule.value
           THEN <<ValidationError(prop, "max", value,
                                  Message(prop, " must be at most {}", rule.value))>>
           ELSE <<>>

\* the check constraintHandlers generates for one rule; a constraint without
\* a handler generates none
RuleErrors(prop, rule, value) ==
  CASE rule.constraint = "isString" ->
         IF value.t # "string"
           THEN <<ValidationError(prop, "isString", value,
                                  Message(prop, " must be a string", 0))>>
           ELSE <<>>
    [] rule.constraint = "isNumber" ->
         IF value.t # "number"
           THEN <<ValidationError(prop, "isNumber", value,
                                  Message(prop, " must be a number", 0))>>
           ELSE <<>>
    [] rule.constraint \in {"isPositive", "isNegative", "min", "max"} ->
         NumericBoundErrors(prop, rule, value)
    [] rule.constraint = "minLength" ->
         IF value.t = "string" /\ Len(value.v) < rule.value
           THEN <<ValidationError(prop, "minLength", value,
                                  Message(prop, " must be at least {} characters",
                                          rule.value))>>
           ELSE <<>>
    [] rule.constraint = "arrayItem" ->
         IF value.t = "array"
           THEN ItemErrorsFrom(prop, compileValidator(DtoClassOf(rule.value)), value.v, 1)
         ELSE <<>>
    [] OTHER -> <<>>

RECURSIVE RulesErrorsFrom(_, _, _, _)
RulesErrorsFrom(prop, rules, i, value) ==
  IF i > Len(rules) THEN <<>>
  ELSE (IF rules[i].constraint \in {"isOptional", "isRequired"}
          THEN <<>>
          ELSE RuleErrors(prop, rules[i], value))
       \o RulesErrorsFrom(prop, rules, i + 1, value)

\* mutant: a field marked optional skips its checks even when it is also
\* marked required
PropertyErrorsOptionalFirst(validation, obj) ==
  LET prop == validation.propertyKey
      value == GetProperty(obj, prop)
      nullish == value.t \in {"undefined", "null"}
      hasRequired == \E i \in 1..Len(validation.rules) :
                       validation.rules[i].constraint = "isRequired"
  IN  IF validation.isOptional /\ nullish THEN <<>>
      ELSE (IF hasRequired /\ nullish
              THEN <<ValidationError(prop, "isRequired", value,
                                     Message(prop, " is required", 0))>>
              ELSE <<>>)
           \o RulesErrorsFrom(prop, validation.rules, 1, value)

\* the code generatePropertyValidation emits for one property, run on obj
PropertyErrors(validation, obj) ==
  LET prop == validation.propertyKey
      value == GetProperty(obj, prop)
      nullish == value.t \in {"undefined", "null"}
      hasRequired == \E i \in 1..Len(validation.rules) :
                       validation.rules[i].constraint = "isRequired"
  IN  (IF hasRequired /\ nullish
         THEN <<ValidationError(prop, "isRequired", value,
                                Message(prop, " is required", 0))>>
         ELSE <<>>)
      \o (IF validation.isOptional /\ ~hasRequired /\ nullish
            THEN <<>>
            ELSE RulesErrorsFrom(prop, validation.rules, 1, value))

\* mutant: validation stops at the first property that has errors
RECURSIVE ValidateFromFirstField(_, _, _)
ValidateFromFirstField(validations, i, obj) ==
  IF i > Len(validations) THEN <<>>
  ELSE IF PropertyErrors(validations[i], obj) # <<>>
    THEN PropertyErrors(validations[i], obj)
    ELSE ValidateFromFirstField(validations, i + 1, obj)

\* the validate(obj) function compileValidator returns
ValidateFrom(validations, i, obj) ==
  IF i > Len(validations) THEN <<>>
  ELSE PropertyErrors(validations[i], obj) \o ValidateFrom(validations, i + 1, obj)

validate(validations, obj) == ValidateFrom(validations, 1, obj)

\* validate(obj) throws a TypeError: the generated code reads obj.<property>
\* for its first property, which throws when obj is null or undefined, and an
\* arrayItem check hands every item of an array to the nested validator
RECURSIVE ValidatorThrows(_, _)
ValidatorThrows(validations, obj) ==
  \/ validations # <<>> /\ obj.t \in {"undefined", "null"}
  \/ \E p \in 1..Len(validations) :
       LET value == GetProperty(obj, validations[p].propertyKey)
           rules == validations[p].rules
       IN  /\ value.t = "array"
           /\ \E r \in 1..Len(rules), i \in 1..Len(value.v) :
                /\ rules[r].constraint = "arrayItem"
                /\ ValidatorThrows(compileValidator(DtoClassOf(rules[r].value)), value.v[i])

(***************************************************************************)
(* Exceptions (exceptions/*.exception) and the request dispatcher          *)
(* (handlers/request-handler).                                             *)
(*                                                                         *)
(* conn is one request/response pair and the position of the              *)
(* handleRequest call serving it: pc names the await the call is suspended *)
(* at, found is its searchResult, log lists what the call has invoked.     *)
(***************************************************************************)
HttpStatusOK == 200

HttpStatusBadRequest == 400

HttpStatusNotFound == 404

HttpStatusInternalServerError == 500

\* a thrown value: class is the class it is an instance of ("null" for the
\* value null, which is no object), the other fields are its properties
MuzuException(status, message, details, errors) ==
  [class |-> "MuzuException", kind |-> "MuzuException", status |-> status,
   message |-> message, details |-> details, errors |-> errors]

\* new MuzuException(status, message, details, kind)
MuzuExceptionOfKind(status, message, details, kind) ==
  [MuzuException(status, message, details, <<>>) EXCEPT !.kind = kind]

NotFoundException(message, details) ==
  [MuzuException(HttpStatusNotFound, message, details, <<>>)
     EXCEPT !.class = "NotFoundException"]

BadRequestException(message, details) ==
  [MuzuException(HttpStatusBadRequest, message, details, <<>>)
     EXCEPT !.class = "BadRequestException"]

ValidationException(errors, message) ==
  [MuzuException(HttpStatusBadRequest, message, <<>>, <<errors>>)
     EXCEPT !.class = "ValidationException"]

HttpException(status, message, details) ==
  [MuzuException(status, message, details, <<>>) EXCEPT !.class = "HttpException"]

\* a thrown value that is no MuzuException (Error, SyntaxError, URIError, ...)
PlainError(name) ==
  [class |-> name, kind |-> "undefined", status |-> 0, message |-> <<name>>,
   details |-> <<>>, errors |-> <<>>]

\* throw null
ThrownNull == [PlainError("null") EXCEPT !.message = <<>>]

\* JSON.stringify of an exception: its defined own properties
StringifyException(e) ==
  [kind |-> e.kind, status |-> e.status, message |-> e.message,
   details |-> e.details, errors |-> e.errors]

Logged(c, ev, id) == [c EXCEPT !.log = Append(@, [ev |-> ev, id |-> id])]

\* JSON.stringify(body) in sendResponse: of a handler's result, or of an
\* exception or the 500 object, which always serialise
SerialisedBody(body) ==
  IF body.kind = "result" THEN JSONstringify(body.details[1])
  ELSE [threw |-> FALSE, text |-> <<>>]

\* sendResponse: res.writeHead(statusCode, JSON_HEADERS);
\* res.end(JSON.stringify(body)).  When JSON.stringify throws the head is
\* written, the response is not ended, and the promise handleRequest returned
\* rejects: its try block does not await sendResponse.
sendResponse(c, statusCode, body) ==
  LET headed == [Logged(c, "writeHead", "")
                   EXCEPT !.res.statusCode = statusCode,
                          !.res.heads = Append(@, statusCode)]
      serialised == SerialisedBody(body)
  IN  IF serialised.threw
        THEN [headed EXCEPT !.pc = "rejected"]
        ELSE [Logged(headed, "end", "")
                EXCEPT !.res.ended = @ + 1,
                       !.res.body = <<body>>,
                       !.res.json = serialised.text,
                       !.pc = "done"]

\* the catch block of handleRequest; reading knownError.kind of null throws
\* inside the catch block, and the promise handleRequest returned rejects
Caught(c, error) ==
  IF error.class = "null" THEN [c EXCEPT !.pc = "rejected"]
  ELSE IF error.kind = "MuzuException"
    THEN sendResponse(c, error.status, StringifyException(error))
    ELSE sendResponse(c, HttpStatusInternalServerError,
                      [kind |-> "undefined", status |-> 0,
                       message |-> <<"Internal Server Error">>,
                       details |-> <<>>, errors |-> <<>>])

\* what a call of the handler returns or, for a promise, resolves to
HandlerResult(handler) == handler.outcome.value

\* the end of handleRequest: the status set so far, or 200, and the result
Respond(c, result) ==
  sendResponse(c, IF c.res.statusCode # 0 THEN c.res.statusCode ELSE HttpStatusOK,
               [kind |-> "result", status |-> 0, message |-> <<>>,
                details |-> <<result>>, errors |-> <<>>])

\* handleRequest from the handler call on: a throw of the call is caught, an
\* awaited result suspends the dispatcher, a result not awaited is sent as
\* it is, a promise included
StageHandler(c) ==
  LET metadata == c.found.metadata[1]
      handler == metadata.handler
      called == Logged(c, "handler", handler.id)
  IN  IF handler.outcome.kind = "throws" THEN Caught(called, handler.outcome.error)
      ELSE IF metadata.isAsync THEN [called EXCEPT !.pc = "awaitHandler"]
      ELSE IF handler.outcome.kind = "returns"
        THEN Respond(called, HandlerResult(handler))
        ELSE Respond(called, JPromise)

\* handleRequest resumed after `await metadata.handler(req, res)`
AfterHandler(c) ==
  LET handler == c.found.metadata[1].handler
      settled == Logged(c, "handlerSettled", handler.id)
  IN  CASE handler.outcome.kind = "rejects" -> Caught(settled, handler.outcome.error)
        [] handler.outcome.kind = "resolves" -> Respond(settled, HandlerResult(handler))
        [] OTHER -> Respond(settled, HandlerResult(handler))

\* the function composeMiddlewares returns for two or more middlewares, from
\* middleware i on: a middleware that throws rejects the composed promise,
\* which the dispatcher awaits; a returned promise suspends the loop
\* mutant: a promise a middleware returns is not awaited
RECURSIVE CallMiddlewaresNoAwait(_, _, _)
CallMiddlewaresNoAwait(c, mws, i) ==
  IF i > Len(mws) THEN [c EXCEPT !.pc = "awaitMiddleware", !.mw = 0]
  ELSE LET called == Logged(c, "middleware", mws[i].id)
       IN  IF mws[i].outcome.kind = "throws" THEN Caught(called, mws[i].outcome.error)
           ELSE CallMiddlewaresNoAwait(called, mws, i + 1)

RECURSIVE CallMiddlewares(_, _, _)
CallMiddlewares(c, mws, i) ==
  IF i > Len(mws) THEN [c EXCEPT !.pc = "awaitMiddleware", !.mw = 0]
  ELSE LET called == Logged(c, "middleware", mws[i].id)
       IN  CASE mws[i].outcome.kind = "throws" -> Caught(called, mws[i].outcome.error)
             [] mws[i].outcome.kind = "returns" -> CallMiddlewares(called, mws, i + 1)
             [] OTHER -> [called EXCEPT !.pc = "awaitMiddlewarePromise", !.mw = i]

\* the composed function resumed after `await result` of middleware c.mw
AfterMiddlewarePromise(c) ==
  LET mws == c.found.metadata[1].composedMiddleware[1].mws
      settled == Logged(c, "middlewareSettled", mws[c.mw].id)
  IN  IF mws[c.mw].outcome.kind = "rejects"
        THEN Caught(settled, mws[c.mw].outcome.error)
        ELSE CallMiddlewares(settled, mws, c.mw + 1)

\* mutant: a throw of the only middleware is not propagated
StageMiddlewareProceeds(c) ==
  LET metadata == c.found.metadata[1]
  IN  IF metadata.composedMiddleware = <<>> THEN StageHandler(c)
      ELSE IF metadata.composedMiddleware[1].kind = "single"
        THEN [Logged(c, "middleware", metadata.composedMiddleware[1].mws[1].id)
                EXCEPT !.pc = "awaitMiddleware", !.mw = 0]
        ELSE CallMiddlewares(c, metadata.composedMiddleware[1].mws, 1)

\* handleRequest from the middleware call on
StageMiddleware(c) ==
  LET metadata == c.found.metadata[1]
  IN  IF metadata.composedMiddleware = <<>> THEN StageHandler(c)
      ELSE IF metadata.composedMiddleware[1].kind = "single"
        THEN LET middleware == metadata.composedMiddleware[1].mws[1]
                 called == Logged(c, "middleware", middleware.id)
             IN  IF middleware.outcome.kind = "throws"
                   THEN Caught(called, middleware.outcome.error)
                   ELSE [called EXCEPT !.pc = "awaitMiddleware", !.mw = 1]
        ELSE CallMiddlewares(c, metadata.composedMiddleware[1].mws, 1)

\* handleRequest resumed after `await metadata.composedMiddleware(req, res)`
AfterMiddleware(c) ==
  IF c.mw = 0 THEN StageHandler(c)
  ELSE LET middleware == c.found.metadata[1].composedMiddleware[1].mws[1]
           settled == Logged(c, "middlewareSettled", middleware.id)
       IN  CASE middleware.outcome.kind = "rejects" ->
                  Caught(settled, middleware.outcome.error)
             [] middleware.outcome.kind = "resolves" -> StageHandler(settled)
             [] OTHER -> StageHandler(c)

\* handleRequest from the body validation on, req.body set
StageBodyValidation(c) ==
  LET metadata == c.found.metadata[1]
  IN  IF metadata.bodyValidator # <<>> /\ Truthy(c.req.body[1])
        THEN LET bodyErrors == validate(metadata.bodyValidator[1], c.req.body[1])
                 called == Logged(c, "bodyValidator", "")
             IN  IF Len(bodyErrors) > 0
                   THEN Caught(called, ValidationException(bodyErrors,
                                                           <<"Body validation failed">>))
                   ELSE StageMiddleware(called)
        ELSE StageMiddleware(c)

\* handleRequest from `if (metadata.requiresBody)` on
StageBody(c) ==
  IF c.found.metadata[1].requiresBody
    THEN [Logged(c, "getRequestBody", "") EXCEPT !.pc = "awaitBody"]
    ELSE StageMiddleware(c)

\* mutant: the query validator sees the query parameters only
StageQueryValidationQueryOnly(c) ==
  LET metadata == c.found.metadata[1]
      query == compilePathParser(metadata.hasQueryParams, c.req.url).queryParams
  IN  IF metadata.queryValidator # <<>>
        THEN LET queryErrors == validate(metadata.queryValidator[1], StringMap(query))
                 called == Logged(c, "queryValidator", "")
             IN  IF Len(queryErrors) > 0
                   THEN Caught(called, ValidationException(queryErrors,
                                                           <<"Query validation failed">>))
                   ELSE StageBody(called)
        ELSE StageBody(c)

\* handleRequest from the query validation on, req.params set
StageQueryValidation(c) ==
  LET metadata == c.found.metadata[1]
  IN  IF metadata.queryValidator # <<>> /\ Truthy(StringMap(c.req.params[1]))
        THEN LET queryErrors == validate(metadata.queryValidator[1],
                                         StringMap(c.req.params[1]))
                 called == Logged(c, "queryValidator", "")
             IN  IF Len(queryErrors) > 0
                   THEN Caught(called, ValidationException(queryErrors,
                                                           <<"Query validation failed">>))
                   ELSE StageBody(called)
        ELSE StageBody(c)

\* handleRequest from metadata.pathParser(url) on
StageParams(c) ==
  LET parsed == compilePathParser(c.found.metadata[1].hasQueryParams, c.req.url)
  IN  IF parsed.threw
        THEN Caught(c, PlainError("URIError"))
        ELSE StageQueryValidation(
               [c EXCEPT !.req.params = <<Spread(parsed.queryParams, c.found.params)>>])

\* handleRequest from its first statement to its first await or its end
handleRequest(c, routeTrees) ==
  LET searchResult == find(routeTrees, c.req.url, c.req.method)
      looked == [Logged(c, "find", "") EXCEPT !.found = searchResult]
  IN  IF searchResult.metadata = <<>>
        THEN LET path == stripQuery(c.req.url)
             IN  Caught(looked,
                        NotFoundException(
                          <<"Route ", c.req.method, " ">> \o path \o <<" not found">>,
                          <<[method |-> c.req.method, path |-> path]>>))
        ELSE StageParams(looked)

\* mutant: a body that does not parse reads as {}
getRequestBodyLenient(bodyText) ==
  IF bodyText # "" /\ ~JSONparse(bodyText).threw THEN JSONparse(bodyText)
  ELSE [threw |-> FALSE, value |-> JObject(EmptyObject)]

\* getRequestBody's 'end' listener: the parsed body, or the SyntaxError
getRequestBody(bodyText) ==
  IF bodyText # "" THEN JSONparse(bodyText)
  ELSE [threw |-> FALSE, value |-> JObject(EmptyObject)]

\* handleRequest resumed by the promise of getRequestBody
AfterBody(c) ==
  LET read == getRequestBody(c.req.bodyText)
  IN  IF read.threw
        THEN Caught(c, BadRequestException(<<"Error parsing body">>, <<>>))
        ELSE StageBodyValidation([c EXCEPT !.req.body = <<read.value>>])

(***************************************************************************)
(* The inputs of the model.                                                *)
(***************************************************************************)
\* what a call of a handler or middleware does: return a value, throw, or
\* return a promise that resolves to a value or rejects
Returns(value) == [kind |-> "returns", value |-> value, error |-> ThrownNull]

Throws(error) == [kind |-> "throws", value |-> JUndefined, error |-> error]

Resolves(value) == [kind |-> "resolves", value |-> value, error |-> ThrownNull]

Rejects(error) == [kind |-> "rejects", value |-> JUndefined, error |-> error]

\* handlers: plain synchronous functions whose text does not mention
\* req.params, returning {h: <id>}
Handler1 ==
  [id |-> "h1", asyncCtor |-> FALSE, srcAsync |-> FALSE, srcParams |-> FALSE,
   outcome |-> Returns(JObject(<<"h">> :> JString(<<"h1">>)))]

Handler2 ==
  [id |-> "h2", asyncCtor |-> FALSE, srcAsync |-> FALSE, srcParams |-> FALSE,
   outcome |-> Returns(JObject(<<"h">> :> JString(<<"h2">>)))]

\* "/"
UrlRoot == <<"/">>

\* "/a/b"
UrlAB == <<"/", "a", "/", "b">>

\* "/A//b/": /a/b up to case and empty segments
UrlABvariant == <<"/", "A", "/", "/", "b", "/">>

\* "/a/:x"
UrlAX == <<"/", "a", "/", ":", "x">>

\* "/A/:y": /a/:x with another case and another parameter name
UrlAY == <<"/", "A", "/", ":", "y">>

\* "/a/:x/c"
UrlAXC == <<"/", "a", "/", ":", "x", "/", "c">>

RouteUrls == {UrlRoot, UrlAB, UrlABvariant, UrlAX, UrlAY, UrlAXC}

\* the Route records handed to RouteManager.addRoute
PlainRoute(method, url, handler) ==
  [method |-> method, url |-> url, handler |-> handler, middlewares |-> <<>>,
   hasQueryParams |-> <<>>, bodyValidator |-> <<>>, queryValidator |-> <<>>]

\* every route URL under GET, three of them also with a second handler, and
\* one under POST
Routes ==
  {PlainRoute("GET", u, Handler1) : u \in RouteUrls}
  \cup {PlainRoute("GET", u, Handler2) : u \in {UrlAB, UrlABvariant, UrlAY}}
  \cup {PlainRoute("POST", UrlAB, Handler1)}

\* request URLs: every route URL, and
\* "/a/B", "/a/b/c", "/a", "/a/b/c/d", "/a/B?x", "/c"
RequestUrls ==
  RouteUrls \cup
  { <<"/", "a", "/", "B">>,
    <<"/", "a", "/", "b", "/", "c">>,
    <<"/", "a">>,
    <<"/", "a", "/", "b", "/", "c", "/", "d">>,
    <<"/", "a", "/", "B", "?", "x">>,
    <<"/", "c">> }

\* the (url, method) pairs looked up: every request URL under GET, two under
\* POST
Requests ==
  {<<u, "GET">> : u \in RequestUrls}
  \cup {<<u, "POST">> : u \in {UrlAB, <<"/", "a", "/", "B">>}}

\* a native async handler
HandlerAsync ==
  [id |-> "ha", asyncCtor |-> TRUE, srcAsync |-> TRUE, srcParams |-> FALSE,
   outcome |-> Resolves(JObject(<<"h">> :> JString(<<"ha">>)))]

\* a plain function that returns the promise of a call it makes: neither a
\* native async function nor one whose text mentions async, await or Promise
HandlerPromise ==
  [id |-> "hp", asyncCtor |-> FALSE, srcAsync |-> FALSE, srcParams |-> FALSE,
   outcome |-> Resolves(JObject(<<"h">> :> JString(<<"hp">>)))]

\* a plain function whose text mentions Promise and that returns a value
HandlerSourceAsync ==
  [id |-> "hs", asyncCtor |-> FALSE, srcAsync |-> TRUE, srcParams |-> FALSE,
   outcome |-> Returns(JNumber(1))]

\* throw new Error()
HandlerThrows ==
  [id |-> "ht", asyncCtor |-> FALSE, srcAsync |-> FALSE, srcParams |-> FALSE,
   outcome |-> Throws(PlainError("Error"))]

\* async, throw new HttpException(403, 'Forbidden', {h: 1})
HandlerRejects ==
  [id |-> "hr", asyncCtor |-> TRUE, srcAsync |-> TRUE, srcParams |-> FALSE,
   outcome |-> Rejects(HttpException(403, <<"Forbidden">>,
                                     <<JObject(<<"h">> :> JNumber(1))>>))]

\* returns an object that refers to itself
HandlerCircular ==
  [id |-> "hc", asyncCtor |-> FALSE, srcAsync |-> FALSE, srcParams |-> FALSE,
   outcome |-> Returns(JCircular)]

\* throw null
HandlerThrowsNull ==
  [id |-> "hn", asyncCtor |-> FALSE, srcAsync |-> FALSE, srcParams |-> FALSE,
   outcome |-> Throws(ThrownNull)]

\* throw new MuzuException(418, 'Teapot', undefined, 'Teapot')
HandlerThrowsKind ==
  [id |-> "hk", asyncCtor |-> FALSE, srcAsync |-> FALSE, srcParams |-> FALSE,
   outcome |-> Throws(MuzuExceptionOfKind(418, <<"Teapot">>, <<>>, "Teapot"))]

\* a plain function whose text mentions req.params
HandlerReadsParams ==
  [id |-> "hq", asyncCtor |-> FALSE, srcAsync |-> FALSE, srcParams |-> TRUE,
   outcome |-> Returns(JObject(<<"h">> :> JString(<<"hq">>)))]

\* middlewares that return undefined
Middleware1 == [id |-> "m1", outcome |-> Returns(JUndefined)]

Middleware2 == [id |-> "m2", outcome |-> Returns(JUndefined)]

\* an async middleware
MiddlewareAsync == [id |-> "ma", outcome |-> Resolves(JUndefined)]

\* throw new HttpException(403, 'Unauthorized', {m: 1})
MiddlewareForbid ==
  [id |-> "mf",
   outcome |-> Throws(HttpException(403, <<"Unauthorized">>,
                                    <<JObject(<<"m">> :> JNumber(1))>>))]

\* an async middleware that throws an Error
MiddlewareRejects == [id |-> "mr", outcome |-> Rejects(PlainError("Error"))]

\* class { @IsRequired() @IsString() @MinLength(1) n }, compiled
RequireN ==
  << [propertyKey |-> <<"n">>,
      rules |-> << createValidationDecorator("isRequired", 0), createValidationDecorator("isString", 0),
                   createValidationDecorator("minLength", 1) >>,
      isOptional |-> FALSE] >>

\* class { @IsRequired() q }, compiled
RequireQ ==
  << [propertyKey |-> <<"q">>, rules |-> <<createValidationDecorator("isRequired", 0)>>, isOptional |-> FALSE] >>

\* class { @IsRequired() i }, compiled
RequireI ==
  << [propertyKey |-> <<"i">>, rules |-> <<createValidationDecorator("isRequired", 0)>>, isOptional |-> FALSE] >>

\* "/m/:i"
UrlMI == <<"/", "m", "/", ":", "i">>

\* "/p"
UrlP == <<"/", "p">>

FullRoute(method, url, handler, middlewares, hasQueryParams, bodyValidator, queryValidator) ==
  [method |-> method, url |-> url, handler |-> handler, middlewares |-> middlewares,
   hasQueryParams |-> hasQueryParams, bodyValidator |-> bodyValidator,
   queryValidator |-> queryValidator]

\* routes whose middlewares throw, reject or return promises
MiddlewareTable ==
  << FullRoute("GET", UrlP, Handler1, << <<MiddlewareForbid>> >>, <<TRUE>>, <<>>, <<>>),
     FullRoute("POST", UrlP, Handler1,
               << <<Middleware1, MiddlewareAsync, Middleware2>> >>, <<TRUE>>, <<>>, <<>>),
     FullRoute("PUT", UrlP, Handler2,
               << <<MiddlewareAsync, MiddlewareForbid, Middleware2>> >>, <<TRUE>>, <<>>,
               <<>>),
     FullRoute("PATCH", UrlP, Handler1, << <<MiddlewareRejects, Middleware1>> >>, <<TRUE>>,
               <<>>, <<>>),
     FullRoute("DELETE", UrlP, HandlerAsync, << <<MiddlewareAsync>> >>, <<TRUE>>, <<>>,
               <<>>),
     FullRoute("GET", UrlMI, Handler1, << <<MiddlewareRejects>> >>, <<TRUE>>, <<>>, <<>>) >>

\* routes whose handlers throw, reject, return promises or return what does
\* not serialise
HandlerTable ==
  << FullRoute("GET", UrlP, HandlerPromise, <<>>, <<TRUE>>, <<>>, <<>>),
     FullRoute("POST", UrlP, HandlerThrows, << <<Middleware1>> >>, <<TRUE>>, <<>>, <<>>),
     FullRoute("PUT", UrlP, HandlerRejects, <<>>, <<TRUE>>, <<>>, <<>>),
     FullRoute("PATCH", UrlP, HandlerCircular, <<>>, <<TRUE>>, <<>>, <<>>),
     FullRoute("DELETE", UrlP, HandlerThrowsNull, <<>>, <<TRUE>>, <<>>, <<>>),
     FullRoute("GET", UrlMI, HandlerSourceAsync, << <<MiddlewareAsync>> >>, <<TRUE>>, <<>>,
               <<>>),
     FullRoute("DELETE", UrlMI, HandlerThrowsKind, <<>>, <<TRUE>>, <<>>, <<>>) >>

\* routes registered without a hasQueryParams flag, and with a flag that
\* contradicts what the handler's text suggests
FlagTable ==
  << FullRoute("GET", UrlMI, HandlerReadsParams, <<>>, <<>>, <<>>, <<>>),
     FullRoute("POST", UrlMI, Handler1, <<>>, <<>>, <<>>, <<>>),
     FullRoute("PUT", UrlMI, HandlerReadsParams, <<>>, <<FALSE>>, <<>>, <<>>),
     FullRoute("PATCH", UrlMI, Handler1, <<>>, <<TRUE>>, <<>>, <<>>) >>

\* mutant: a validator that fails to compile aborts the registration of the
\* controller's routes
processControllerStrict(controller, basePath) ==
  IF \E d \in 1..Len(controller) :
       \/ controller[d].bodyDto # <<>>
            /\ CompileThrows(DtoClassOf(controller[d].bodyDto[1]), 1)
       \/ controller[d].queryDto # <<>>
            /\ CompileThrows(DtoClassOf(controller[d].queryDto[1]), 1)
    THEN <<>>
    ELSE [d \in 1..Len(controller) |->
            FullRoute(controller[d].method, controller[d].url, controller[d].handler,
                      controller[d].middlewares, <<controller[d].handler.srcParams>>,
                      <<>>, <<>>)]

\* the routes processController hands to addRoutes for a controller class, the
\* class being the list of its methods with the metadata their decorators
\* left (method "" or url <<>>: no route decorator)
processController(controller, basePath) ==
  LET trim(text) ==
        LET kept == {i \in 1..Len(text) : text[i] # "/"}
        IN  IF kept = {} THEN <<>>
            ELSE SubSeq(text, CHOOSE i \in kept : \A j \in kept : i <= j,
                              CHOOSE i \in kept : \A j \in kept : i >= j)
      joinPaths(routePath) ==
        LET base == trim(basePath)
            route == trim(routePath)
        IN  IF base = <<>> /\ route = <<>> THEN <<"/">>
            ELSE IF base = <<>> THEN <<"/">> \o route
            ELSE IF route = <<>> THEN <<"/">> \o base
            ELSE <<"/">> \o base \o <<"/">> \o route
      bind(handler) == [handler EXCEPT !.srcAsync = FALSE, !.srcParams = FALSE]
      tryCompile(dto) ==
        IF dto = <<>> \/ CompileThrows(DtoClassOf(dto[1]), 1) THEN <<>>
        ELSE <<compileValidator(DtoClassOf(dto[1]))>>
      routes == [d \in 1..Len(controller) |->
                   IF controller[d].method = "" \/ controller[d].url = <<>> THEN <<>>
                   ELSE << FullRoute(controller[d].method, joinPaths(controller[d].url),
                                     bind(controller[d].handler), controller[d].middlewares,
                                     <<controller[d].handler.srcParams>>,
                                     tryCompile(controller[d].bodyDto),
                                     tryCompile(controller[d].queryDto)) >>]
  IN  Concat(routes)

\* a controller class whose POST route validates its body by NodeDto and whose
\* GET route validates its query by NodeDto, a class compileValidator throws
\* on; its PUT route validates its body by BodyDto; its constructor is no route
ValidatedController ==
  << [method |-> "", url |-> <<>>, handler |-> Handler1, middlewares |-> <<>>,
      bodyDto |-> <<>>, queryDto |-> <<>>],
     [method |-> "POST", url |-> <<"/", "p">>, handler |-> Handler1,
      middlewares |-> << <<Middleware1>> >>, bodyDto |-> <<"NodeDto">>, queryDto |-> <<>>],
     [method |-> "PUT", url |-> <<"p", "/">>, handler |-> Handler2, middlewares |-> <<>>,
      bodyDto |-> <<"BodyDto">>, queryDto |-> <<>>],
     [method |-> "GET", url |-> <<"/", "m", "/", ":", "i">>, handler |-> HandlerReadsParams,
      middlewares |-> <<>>, bodyDto |-> <<>>, queryDto |-> <<"NodeDto">>] >>

\* the route tables the dispatcher is run on, each registered by addRoutes:
\* validators on the query (q required) and the body (n required);
\* no validator at all; a query validator on the path parameter i; ...; and
\* last GET /:i/:y/:z with GET /:u/b/:i/c, whose parametric node at depth 3
\* carries the name of the one at depth 1
RouteTables ==
  { << FullRoute("GET", UrlMI, Handler1, << <<Middleware1>> >>, <<TRUE>>, <<>>, <<RequireQ>>),
       FullRoute("POST", UrlP, Handler2, << <<Middleware1>> >>, <<TRUE>>, <<RequireN>>,
                 <<RequireQ>>),
       FullRoute("PUT", UrlP, HandlerAsync, <<>>, <<TRUE>>, <<RequireN>>, <<>>),
       FullRoute("PATCH", UrlP, Handler1, << <<Middleware1, Middleware2>> >>, <<TRUE>>,
                 <<RequireN>>, <<>>) >>,
    << FullRoute("GET", UrlMI, Handler1, <<>>, <<TRUE>>, <<>>, <<>>),
       FullRoute("POST", UrlP, HandlerAsync, << <<Middleware1>> >>, <<TRUE>>, <<>>, <<>>) >>,
    << FullRoute("GET", UrlMI, Handler2, << <<Middleware1>> >>, <<TRUE>>, <<>>, <<RequireI>>),
       FullRoute("POST", UrlMI, Handler1, <<>>, <<FALSE>>, <<RequireN>>, <<RequireI>>) >>,
    MiddlewareTable,
    HandlerTable,
    FlagTable,
    processController(ValidatedController, <<>>),
    << FullRoute("GET", <<"/", ":", "i", "/", ":", "y", "/", ":", "z">>, Handler1, <<>>,
                 <<TRUE>>, <<>>, <<>>),
       FullRoute("GET", <<"/", ":", "u", "/", "b", "/", ":", "i", "/", "c">>, Handler2,
                 <<>>, <<TRUE>>, <<>>, <<>>) >> }

\* the requests: "/m/7", "/m/7?i=9", "/m/7?q=1&i=9", "/m/7?q=%41", "/m/7?q=%",
\* "/p", "/p?q=1", "/zz?q=1", "/m", "/1/b/2"
DispatchUrls ==
  { <<"/", "m", "/", "7">>,
    <<"/", "m", "/", "7", "?", "i", "=", "9">>,
    <<"/", "m", "/", "7", "?", "q", "=", "1", "&", "i", "=", "9">>,
    <<"/", "m", "/", "7", "?", "q", "=", "%", "4", "1">>,
    <<"/", "m", "/", "7", "?", "q", "=", "%">>,
    <<"/", "p">>,
    <<"/", "p", "?", "q", "=", "1">>,
    <<"/", "z", "z", "?", "q", "=", "1">>,
    <<"/", "m">>,
    <<"/", "1", "/", "b", "/", "2">> }

DispatchMethods == {"GET", "POST", "PUT", "PATCH", "DELETE"}

\* the texts a request's body stream delivers
BodyTexts == {"", "{}", "{\"n\":\"v\"}", "null", "0", "Not a JSON"}

(***************************************************************************)
(* State.                                                                  *)
(***************************************************************************)
VARIABLES
  trees,        \* RouteManager.trees
  registered,   \* the routes passed to addRoute so far, in call order
  lastCall,     \* the latest call of the RouteManager API and what it returned
  conn,         \* the request being served and its handleRequest call
  inflight      \* the other requests in flight, their handleRequest calls
                \* suspended at an await

vars == <<trees, registered, lastCall, conn, inflight>>

NoCall ==
  [op |-> "none", url |-> <<>>, method |-> "",
   result |-> [metadata |-> <<>>, params |-> EmptyObject], routes |-> <<>>]

\* a request as the transport delivers it and a fresh response
NewConn(method, url, bodyText) ==
  [pc |-> "start",
   req |-> [method |-> method, url |-> url, bodyText |-> bodyText,
            params |-> <<>>, body |-> <<>>],
   res |-> [statusCode |-> HttpStatusOK, heads |-> <<>>, ended |-> 0, body |-> <<>>,
            json |-> <<>>],
   found |-> [metadata |-> <<>>, params |-> EmptyObject],
   mw |-> 0,
   log |-> <<>>]

\* no request yet
IdleConn == [NewConn("", <<>>, "") EXCEPT !.pc = "idle"]

Init ==
  /\ trees = <<>>
  /\ registered = <<>>
  /\ lastCall = NoCall
  /\ conn = IdleConn
  /\ inflight = <<>>

\* RouteManager.addRoute(route)
AddRoute(route) ==
  /\ Len(registered) < MaxRoutes
  /\ trees' = addRoute(trees, route)
  /\ registered' = Append(registered, route)
  /\ lastCall' = [NoCall EXCEPT !.op = "addRoute", !.url = route.url,
                                !.method = route.method]
  /\ UNCHANGED <<conn, inflight>>

\* RouteManager.find(url, method)
Find(url, method) ==
  /\ lastCall' = [NoCall EXCEPT !.op = "find", !.url = url, !.method = method,
                                !.result = find(trees, url, method)]
  /\ UNCHANGED <<trees, registered, conn, inflight>>

\* RouteManager.getRoutes()
GetRoutes ==
  /\ lastCall' = [NoCall EXCEPT !.op = "getRoutes", !.routes = getRoutes(trees)]
  /\ UNCHANGED <<trees, registered, conn, inflight>>

Next ==
  \/ \E route \in Routes : AddRoute(route)
  \/ \E r \in Requests : Find(r[1], r[2])
  \/ GetRoutes

Spec == Init /\ [][Next]_vars

(***************************************************************************)
(* Serving: the routes are registered, requests arrive one after another.  *)
(***************************************************************************)
InitServing ==
  /\ \E table \in RouteTables :
       /\ trees = addRoutes(<<>>, table)
       /\ registered = table
  /\ lastCall = NoCall
  /\ conn = IdleConn
  /\ inflight = <<>>

\* the transport delivers a request: handleRequest runs to its first await
Request(method, url, bodyText) ==
  /\ conn.pc \in {"idle", "done", "rejected"}
  /\ conn' = handleRequest(NewConn(method, url, bodyText), trees)
  /\ UNCHANGED <<trees, registered, lastCall, inflight>>

\* the body stream ends: getRequestBody settles and handleRequest resumes
BodyEnd ==
  /\ conn.pc = "awaitBody"
  /\ conn' = AfterBody(conn)
  /\ UNCHANGED <<trees, registered, lastCall, inflight>>

\* a promise awaited inside the composed middleware settles
MiddlewareSettled ==
  /\ conn.pc = "awaitMiddlewarePromise"
  /\ conn' = AfterMiddlewarePromise(conn)
  /\ UNCHANGED <<trees, registered, lastCall, inflight>>

\* what the dispatcher awaits of the middleware settles
MiddlewareDone ==
  /\ conn.pc = "awaitMiddleware"
  /\ conn' = AfterMiddleware(conn)
  /\ UNCHANGED <<trees, registered, lastCall, inflight>>

\* what the dispatcher awaits of the handler settles
HandlerDone ==
  /\ conn.pc = "awaitHandler"
  /\ conn' = AfterHandler(conn)
  /\ UNCHANGED <<trees, registered, lastCall, inflight>>

NextServing ==
  \/ \E method \in DispatchMethods, url \in DispatchUrls, bodyText \in BodyTexts :
       Request(method, url, bodyText)
  \/ BodyEnd
  \/ MiddlewareSettled
  \/ MiddlewareDone
  \/ HandlerDone

SpecServing == InitServing /\ [][NextServing]_vars

(***************************************************************************)
(* Serving several requests: while handleRequest waits at an await for one *)
(* request, the transport delivers others and the event loop resumes       *)
(* whichever call's promise has settled.                                   *)
(***************************************************************************)
\* mutant: the lookup of an arriving request fills a params object it shares
\* with the suspended requests
ArriveSharedParams(method, url, bodyText) ==
  LET arrived == handleRequest(NewConn(method, url, bodyText), trees)
      shared(c) == [c EXCEPT !.found.params = arrived.found.params,
                             !.req.params = arrived.req.params]
  IN  /\ conn.pc \in {"awaitBody", "awaitMiddlewarePromise", "awaitMiddleware",
                      "awaitHandler"}
      /\ Len(inflight) < MaxInFlight
      /\ inflight' = Append(inflight, shared(conn))
      /\ conn' = arrived
      /\ UNCHANGED <<trees, registered, lastCall>>

\* the transport delivers a request while the one being served is suspended
\* at an await: handleRequest is called with the new request's own req and
\* res and runs to its first await
Arrive(method, url, bodyText) ==
  /\ conn.pc \in {"awaitBody", "awaitMiddlewarePromise", "awaitMiddleware",
                  "awaitHandler"}
  /\ Len(inflight) < MaxInFlight
  /\ inflight' = Append(inflight, conn)
  /\ conn' = handleRequest(NewConn(method, url, bodyText), trees)
  /\ UNCHANGED <<trees, registered, lastCall>>

\* the event loop turns to the i-th suspended request; the one it leaves
\* stays in flight while it is suspended
Switch(i) ==
  /\ conn' = inflight[i]
  /\ inflight' =
       IF conn.pc \in {"awaitBody", "awaitMiddlewarePromise", "awaitMiddleware",
                       "awaitHandler"}
         THEN [inflight EXCEPT ![i] = conn]
         ELSE [k \in 1..(Len(inflight) - 1) |->
                 IF k < i THEN inflight[k] ELSE inflight[k + 1]]
  /\ UNCHANGED <<trees, registered, lastCall>>

NextInterleaved ==
  \/ \E method \in {"GET", "POST"},
        url \in { <<"/", "m", "/", "7">>,
                  <<"/", "m", "/", "7", "?", "q", "=", "1", "&", "i", "=", "9">>,
                  <<"/", "p">>,
                  <<"/", "p", "?", "q", "=", "1">> },
        bodyText \in {"{}", "{\"n\":\"v\"}"} :
       \/ Request(method, url, bodyText)
       \/ Arrive(method, url, bodyText)
  \/ \E i \in 1..Len(inflight) : Switch(i)
  \/ BodyEnd
  \/ MiddlewareSettled
  \/ MiddlewareDone
  \/ HandlerDone

SpecInterleaved == InitServing /\ [][NextInterleaved]_vars

\* serving a request whose body stream ends and whose middlewares and handler
\* terminate: every promise handleRequest awaits settles, and the event loop
\* then resumes handleRequest
SpecServingFair ==
  /\ SpecServing
  /\ WF_vars(BodyEnd)
  /\ WF_vars(MiddlewareSettled)
  /\ WF_vars(MiddlewareDone)
  /\ WF_vars(HandlerDone)

(***************************************************************************)
(* The path parser on its own: the closures compilePathParser returns,     *)
(* applied to URLs built from '&'-separated pairs.                         *)
(***************************************************************************)
\* the pairs joined by '&'
RECURSIVE JoinPairs(_)
JoinPairs(pairs) ==
  IF Len(pairs) = 1 THEN pairs[1]
  ELSE pairs[1] \o <<"&">> \o JoinPairs(Tail(pairs))

\* the url arguments of a parser closure: "/s", and "/s?" followed by one to
\* MaxPairs '&'-separated pairs (a pair without '=', with an empty value, with
\* an empty key, an escape, several '=', an empty pair, a '?' inside, a
\* malformed escape)
ParserUrls ==
  LET QueryPairs ==
        { <<"a">>,
          <<"a", "=">>,
          <<"a", "=", "1">>,
          <<"=", "1">>,
          <<"a", "=", "%", "4", "1">>,
          <<"b", "=", "x", "=", "y">>,
          <<>>,
          <<"c", "?", "d", "=", "%", "2", "0">>,
          <<"a", "=", "%">> }
  IN  { <<"/", "s">> }
      \cup UNION { { <<"/", "s", "?">> \o JoinPairs(pairs) : pairs \in [1..n -> QueryPairs] }
                   : n \in 1..MaxPairs }

\* compilePathParser(hasQueryParams)(url)
PathParser(hasQueryParams, url) ==
  /\ lastCall' = [op |-> "pathParser", url |-> url, hasQueryParams |-> hasQueryParams,
                  parsed |-> compilePathParser(hasQueryParams, url)]
  /\ UNCHANGED <<trees, registered, conn, inflight>>

\* the parser closures called on the urls, no route registered
SpecParser ==
  Init /\ [][\E hasQueryParams \in BOOLEAN, url \in ParserUrls :
               PathParser(hasQueryParams, url)]_vars

(***************************************************************************)
(* The compiled validator as a function of its inputs: a DTO class of two  *)
(* properties n and m and an object to validate.                           *)
(***************************************************************************)
\* the DTO classes: property n with up to MaxRules rules in any insertion
\* order, property m with one of seven rule lists
DtoClasses ==
  LET RuleChoices ==
        { createValidationDecorator(constraint, 0) :
            constraint \in {"isRequired", "isOptional", "isString", "isNumber",
                            "isPositive", "isNegative"} }
        \cup { createValidationDecorator("minLength", 2), createValidationDecorator("min", 1), createValidationDecorator("max", 1) }
      RuleLists == UNION {[1..k -> RuleChoices] : k \in 0..MaxRules}
      SecondRuleLists ==
        { <<>>,
          <<createValidationDecorator("isString", 0), createValidationDecorator("isRequired", 0)>>,
          <<createValidationDecorator("isOptional", 0), createValidationDecorator("minLength", 2)>>,
          << createValidationDecorator("isOptional", 0), createValidationDecorator("isRequired", 0),
             createValidationDecorator("isString", 0) >>,
          <<createValidationDecorator("isRequired", 0), createValidationDecorator("arrayItem", "TagDto")>>,
          <<createValidationDecorator("arrayItem", "PostDto")>>,
          <<createValidationDecorator("arrayItem", "NodeDto")>> }
  IN  { << [propertyKey |-> <<"n">>, rules |-> first],
           [propertyKey |-> <<"m">>, rules |-> second] >> :
        first \in RuleLists, second \in SecondRuleLists }

\* the objects validated: JUndefined is the property left out
ValidatedObjects ==
  LET FirstValues ==
        {JUndefined, JNull, JString(<<"v">>), JString(<<"v", "v">>), JNumber(0),
         JNumber(2), JNumber(-1)}
      SecondValues ==
        { JUndefined, JString(<<"v">>),
          JArray(<< JObject((<<"k">> :> JString(<<"v">>))), JObject(EmptyObject),
                    JObject((<<"k">> :> JString(<<"v", "v">>))) >>),
          JArray(<< JObject((<<"k">> :> JNumber(1))), JNull >>),
          JArray(<< JObject((<<"c">> :> JArray(<<JObject(EmptyObject)>>))) >>),
          JArray(<< JString(<<"v">>) >>) }
  IN  { JObject((<<"n">> :> first) @@ (<<"m">> :> second)) :
        first \in FirstValues, second \in SecondValues }

\* a DTO class and an object about to be validated against it
InitValidator ==
  /\ trees = <<>>
  /\ registered = <<>>
  /\ lastCall \in {[op |-> "input", dto |-> dto, obj |-> obj] :
                     dto \in DtoClasses, obj \in ValidatedObjects}
  /\ conn = IdleConn
  /\ inflight = <<>>

\* compileValidator(dtoClass)(obj)
Validate ==
  /\ lastCall.op = "input"
  /\ lastCall' =
       LET compiled == ~CompileThrows(lastCall.dto, 1)
           threw == compiled /\ ValidatorThrows(compileValidator(lastCall.dto), lastCall.obj)
       IN  [op |-> "validate", dto |-> lastCall.dto, obj |-> lastCall.obj,
            compiled |-> compiled, threw |-> threw,
            errors |-> IF compiled /\ ~threw
                         THEN validate(compileValidator(lastCall.dto), lastCall.obj)
                         ELSE <<>>]
  /\ UNCHANGED <<trees, registered, conn, inflight>>

SpecValidator == InitValidator /\ [][Validate]_vars



(***************************************************************************)
(* What the claims speak of, stated from the call history and the trie's   *)
(* shape, independently of the insertion and search code.                  *)
(***************************************************************************)
\* the path of a URL: the URL up to its first '?'
PathOf(url) ==
  IF \E i \in 1..Len(url) : url[i] = "?"
    THEN SubSeq(url, 1, (CHOOSE i \in 1..Len(url) :
                           url[i] = "?" /\ \A j \in 1..(i - 1) : url[j] # "?") - 1)
    ELSE url

\* the non-empty segments of a URL's path, as written
RawSegments(url) == FilterNonEmpty(split(PathOf(url), "/"))

IsParamText(seg) == seg[1] = ":"

\* the segments as the trie sees them: static text in lower case
SpecSegments(url) ==
  LET raw == RawSegments(url)
  IN  [i \in 1..Len(raw) |-> IF IsParamText(raw[i]) THEN raw[i] ELSE toLowerCase(raw[i])]

\* the trie position a route path denotes: its static text in lower case and
\* a parametric segment whatever its name
PositionOf(url) ==
  LET segs == SpecSegments(url)
  IN  [i \in 1..Len(segs) |-> IF IsParamText(segs[i]) THEN PARAM_KEY ELSE segs[i]]

ParamPositions(url) == {p \in 1..Len(SpecSegments(url)) : IsParamText(SpecSegments(url)[p])}

\* the registrations of a method through the first p keys of a position
Through(method, pos, p) ==
  {j \in 1..Len(registered) :
     /\ registered[j].method = method
     /\ Len(PositionOf(registered[j].url)) >= p
     /\ SubSeq(PositionOf(registered[j].url), 1, p) = SubSeq(pos, 1, p)}

Earliest(S) == CHOOSE j \in S : \A k \in S : j <= k

Latest(S) == CHOOSE j \in S : \A k \in S : j >= k

\* the parameter name of the first route registered through a position
FirstName(method, pos, p) ==
  LET j == Earliest(Through(method, pos, p))
  IN  SubSeq(SpecSegments(registered[j].url)[p], 2, Len(SpecSegments(registered[j].url)[p]))

\* the registrations at the same method and trie position as registration i
SamePosition(i) ==
  {j \in 1..Len(registered) :
     /\ registered[j].method = registered[i].method
     /\ PositionOf(registered[j].url) = PositionOf(registered[i].url)}

\* the registrations of the same method and path as registration i, a path
\* taken up to the case of static segments and empty segments
SamePath(i) ==
  {j \in 1..Len(registered) :
     /\ registered[j].method = registered[i].method
     /\ SpecSegments(registered[j].url) = SpecSegments(registered[i].url)}

\* the metadata a registration compiles
CompiledBy(route) ==
  attachValidators(
    compileRouteMetadata(route.handler, route.middlewares, route.method,
                         route.hasQueryParams),
    route.bodyValidator, route.queryValidator)

\* a route's own parameter names bound to its own segments
OwnParams(route) ==
  LET segs == SpecSegments(route.url)
      P == ParamPositions(route.url)
      names == {SubSeq(segs[p], 2, Len(segs[p])) : p \in P}
  IN  [n \in names |->
         segs[Latest({p \in P : SubSeq(segs[p], 2, Len(segs[p])) = n})]]

\* the names first registered at a route's parametric positions bound to the
\* route's own segments
PositionParams(route) ==
  LET segs == SpecSegments(route.url)
      pos == PositionOf(route.url)
      P == ParamPositions(route.url)
      names == {FirstName(route.method, pos, p) : p \in P}
  IN  [n \in names |->
         segs[Latest({p \in P : FirstName(route.method, pos, p) = n})]]

\* the registrations the latest find call names by URL and method
Looked ==
  {i \in 1..Len(registered) :
     /\ registered[i].url = lastCall.url
     /\ registered[i].method = lastCall.method}

HasLookedTree == lastCall.method # "" /\ hasTree(trees, lastCall.method)

LookedTree == trees[treeIndex(trees, lastCall.method)].tree

\* the children of node n a request segment can step to: the static child
\* of equal text and the parametric child
StepsTo(tree, n, seg) ==
  {c \in {Append(n, seg), Append(n, PARAM_KEY)} : c \in DOMAIN tree}

\* some chain of nodes from n consumes the segments after the i-th and ends
\* on a node holding metadata
RECURSIVE Completes(_, _, _, _)
Completes(tree, n, segs, i) ==
  IF i = Len(segs) THEN tree[n].metadata # <<>>
  ELSE \E c \in StepsTo(tree, n, segs[i + 1]) : Completes(tree, c, segs, i + 1)

\* the chain that takes the static child wherever the static child completes
RECURSIVE Preferred(_, _, _, _)
Preferred(tree, n, segs, i) ==
  IF i = Len(segs) THEN n
  ELSE IF Append(n, segs[i + 1]) \in DOMAIN tree
            /\ Completes(tree, Append(n, segs[i + 1]), segs, i + 1)
    THEN Preferred(tree, Append(n, segs[i + 1]), segs, i + 1)
    ELSE Preferred(tree, Append(n, PARAM_KEY), segs, i + 1)

\* a params map binds nothing but parametric nodes of the chain to the
\* request segment at their depth
BoundAlong(params, tree, chain, segs) ==
  \A k \in DOMAIN params :
    \E d \in 1..Len(chain) :
      /\ chain[d] = PARAM_KEY
      /\ tree[SubSeq(chain, 1, d)].paramName = <<k>>
      /\ segs[d] = params[k]

\* the depths of a chain at which both the static and the parametric child
\* lead to a complete match
BothComplete(tree, chain, segs) ==
  {d \in 1..Len(chain) :
     LET n == SubSeq(chain, 1, d - 1)
     IN  /\ Append(n, segs[d]) \in DOMAIN tree
         /\ Append(n, PARAM_KEY) \in DOMAIN tree
         /\ Completes(tree, Append(n, segs[d]), segs, d)
         /\ Completes(tree, Append(n, PARAM_KEY), segs, d)}

\* C2 as stated: the value bound to a parameter is a segment of the request
\* path exactly as the request wrote it.
C2_ParamValueVerbatim ==
  (lastCall.op = "find" /\ lastCall.result.metadata # <<>>) =>
    \A k \in DOMAIN lastCall.result.params :
      \E d \in 1..Len(RawSegments(lastCall.url)) :
        lastCall.result.params[k] = RawSegments(lastCall.url)[d]

\* C3: a find call matches exactly when some chain of trie nodes consumes
\* all request segments and ends on a node holding metadata; with GET /a/b
\* and GET /a/:x/c registered (and no other name given to that parameter),
\* GET /a/b/c matches the latter with x = "b".
C3_SearchBacktracks ==
  lastCall.op = "find" =>
    /\ lastCall.result.metadata # <<>>
         <=> (HasLookedTree
              /\ Completes(LookedTree, <<>>, SpecSegments(lastCall.url), 0))
    /\ ( /\ lastCall.method = "GET"
         /\ lastCall.url = <<"/", "a", "/", "b", "/", "c">>
         /\ \E i \in 1..Len(registered) :
              registered[i].method = "GET" /\ registered[i].url = UrlAXC
         /\ \A i \in 1..Len(registered) : registered[i].url # UrlAY )
       => LET last == Latest({i \in 1..Len(registered) :
                                registered[i].method = "GET"
                                /\ registered[i].url = UrlAXC})
          IN  /\ lastCall.result.metadata = <<CompiledBy(registered[last])>>
              /\ lastCall.result.params = (<<"x">> :> <<"b">>)

\* C3's case: GET /a/b and GET /a/:x/c are registered and GET /a/b/c, whose
\* static branch /a/b dead-ends, matched with x = "b"
C3_Witness ==
  /\ lastCall.op = "find"
  /\ lastCall.method = "GET"
  /\ lastCall.url = <<"/", "a", "/", "b", "/", "c">>
  /\ \E i, j \in 1..Len(registered) :
       /\ registered[i].method = "GET" /\ registered[i].url = UrlAB
       /\ registered[j].method = "GET" /\ registered[j].url = UrlAXC
  /\ lastCall.result.metadata # <<>>
  /\ lastCall.result.params = (<<"x">> :> <<"b">>)

\* C4: a matching find call returns the metadata of the chain that takes the
\* static child at every depth where the static child leads to a complete
\* match, and its params bind nothing but parametric nodes of that chain: at
\* a depth where both children complete, the parametric child is not bound.
C4_StaticPrecedence ==
  (lastCall.op = "find" /\ HasLookedTree
     /\ Completes(LookedTree, <<>>, SpecSegments(lastCall.url), 0)) =>
    LET segs == SpecSegments(lastCall.url)
        chain == Preferred(LookedTree, <<>>, segs, 0)
    IN  /\ lastCall.result.metadata = LookedTree[chain].metadata
        /\ BoundAlong(lastCall.result.params, LookedTree, chain, segs)
        /\ \A d \in BothComplete(LookedTree, chain, segs) : chain[d] = segs[d]

\* C4's case: a request matched where, at some depth, both the static and
\* the parametric child lead to a complete match
C4_Witness ==
  /\ lastCall.op = "find"
  /\ HasLookedTree
  /\ lastCall.result.metadata # <<>>
  /\ BothComplete(LookedTree,
                  Preferred(LookedTree, <<>>, SpecSegments(lastCall.url), 0),
                  SpecSegments(lastCall.url)) # {}


\* a path written from its segments: each preceded by '/', "/" for none
JoinPath(segs) ==
  IF segs = <<>> THEN <<"/">>
  ELSE Concat([i \in 1..Len(segs) |-> <<"/">> \o segs[i]])

\* a route's trie position written as a path: static segments in lower case,
\* each parametric segment under the name first registered there
PositionPath(route) ==
  LET segs == SpecSegments(route.url)
      pos == PositionOf(route.url)
  IN  JoinPath([p \in 1..Len(segs) |->
                  IF IsParamText(segs[p])
                    THEN <<":">> \o FirstName(route.method, pos, p)
                    ELSE segs[p]])

\* the entries of the latest getRoutes() result with a method and a path
Listed(method, path) ==
  {k \in 1..Len(lastCall.routes) :
     lastCall.routes[k].method = method /\ lastCall.routes[k].url = path}

\* registration i re-inserts a method and path registered before
Reinserted(i) == \E j \in SamePath(i) : j < i

\* C6 as stated, its last part: after a route was re-inserted at a method
\* and path registered before (a path taken up to the case of static
\* segments and empty segments), getAllRoutes() lists that path exactly once
\* with the last handler registered for it.
C6_Original ==
  lastCall.op = "getRoutes" =>
    \A i \in 1..Len(registered) :
      Reinserted(i) =>
        LET listed == Listed(registered[i].method,
                             JoinPath(SpecSegments(registered[i].url)))
        IN  /\ Cardinality(listed) = 1
            /\ \A k \in listed :
                 lastCall.routes[k].handler = registered[Latest(SamePath(i))].handler

\* the routes list shows every registered trie position once, with the
\* handler of the last registration there, and nothing else
C6_Listing ==
  lastCall.op = "getRoutes" =>
    /\ \A i \in 1..Len(registered) :
         LET listed == Listed(registered[i].method, PositionPath(registered[i]))
         IN  /\ Cardinality(listed) = 1
             /\ \A k \in listed :
                  lastCall.routes[k].handler
                    = registered[Latest(SamePosition(i))].handler
    /\ Len(lastCall.routes)
         = Cardinality({<<registered[i].method, PositionOf(registered[i].url)>> :
                          i \in 1..Len(registered)})

\* an addRoute step at a method and trie position registered before adds no
\* node and changes nothing but the metadata of the node at that position,
\* which becomes the newly compiled one
C6_ReinsertStep ==
  (Len(registered') = Len(registered) + 1
     /\ \E j \in 1..Len(registered) :
          /\ registered[j].method = registered'[Len(registered')].method
          /\ PositionOf(registered[j].url)
               = PositionOf(registered'[Len(registered')].url)) =>
    LET route == registered'[Len(registered')]
        i == treeIndex(trees, route.method)
        leaf == PositionOf(route.url)
    IN  /\ Len(trees') = Len(trees)
        /\ \A k \in 1..Len(trees) : k # i => trees'[k] = trees[k]
        /\ DOMAIN trees'[i].tree = DOMAIN trees[i].tree
        /\ \A n \in DOMAIN trees[i].tree :
             n # leaf => trees'[i].tree[n] = trees[i].tree[n]
        /\ trees'[i].tree[leaf]
             = [trees[i].tree[leaf] EXCEPT !.metadata = <<CompiledBy(route)>>]

\* C6 as amended: re-inserting a route at an already registered method and
\* trie position (a path differing only in the case of static segments, in
\* empty segments or in the names of parametric segments) creates no trie
\* node and replaces the node's metadata with the newly compiled one;
\* getAllRoutes() lists the position exactly once, as the path with static
\* segments in lower case and parametric segments under their first
\* registered names, with the last handler.
C6_Reinsert == [](C6_Listing) /\ [][C6_ReinsertStep]_vars

\* C6's case: /a/b was registered, then re-inserted as /A//b/ with another
\* handler, and the routes were listed
C6_Witness ==
  /\ lastCall.op = "getRoutes"
  /\ \E i, j \in 1..Len(registered) :
       /\ i < j
       /\ registered[i].method = "GET" /\ registered[i].url = UrlAB
       /\ registered[j].method = "GET" /\ registered[j].url = UrlABvariant
       /\ registered[i].handler # registered[j].handler
       /\ j = Latest(SamePosition(j))
       /\ \E k \in Listed("GET", UrlAB) :
            lastCall.routes[k].handler = registered[j].handler


(***************************************************************************)
(* The dispatcher's claims, on the request being served.                   *)
(***************************************************************************)
Served == conn.pc # "idle"

LogHas(events) == \E i \in 1..Len(conn.log) : conn.log[i].ev \in events

\* the matched route's metadata, when the lookup matched
RouteFound == conn.found.metadata # <<>>

\* some registered route of the request's method matches the request's path
RouteMatches ==
  /\ conn.req.method # ""
  /\ \E i \in 1..Len(trees) :
       /\ trees[i].method = conn.req.method
       /\ Completes(trees[i].tree, <<>>, SpecSegments(conn.req.url), 0)

\* what the matched route's parser makes of the request URL
ParsedUrl == compilePathParser(conn.found.metadata[1].hasQueryParams, conn.req.url)

\* the query parameters and the path parameters together
MergedParams == Spread(ParsedUrl.queryParams, conn.found.params)

\* the response written: exactly one head of this status, ended once, an
\* exception body with this message
ErrorResponse(status, message) ==
  /\ conn.pc = "done"
  /\ conn.res.heads = <<status>>
  /\ conn.res.ended = 1
  /\ conn.res.body # <<>>
  /\ conn.res.body[1].kind = "MuzuException"
  /\ conn.res.body[1].status = status
  /\ conn.res.body[1].message = message

\* C5: for a matched request, req.params holds every query parameter and
\* every path parameter, and a path parameter's value wherever both name
\* it; GET /m/7?i=9 on the route GET /m/:i yields params.i = "7".
C5_PathOverridesQuery ==
  (Served /\ RouteFound /\ ~ParsedUrl.threw) =>
    /\ conn.req.params # <<>>
    /\ DOMAIN conn.req.params[1]
         = DOMAIN ParsedUrl.queryParams \cup DOMAIN conn.found.params
    /\ \A k \in DOMAIN conn.found.params :
         conn.req.params[1][k] = conn.found.params[k]
    /\ \A k \in DOMAIN ParsedUrl.queryParams \ DOMAIN conn.found.params :
         conn.req.params[1][k] = ParsedUrl.queryParams[k]
    /\ (conn.req.method = "GET"
        /\ conn.req.url = <<"/", "m", "/", "7", "?", "i", "=", "9">>)
       => conn.req.params[1][<<"i">>] = <<"7">>

\* C5's case: GET /m/7?q=1&i=9 matched /m/:i: the query names i as well
C5_Witness ==
  /\ conn.req.method = "GET"
  /\ conn.req.url = <<"/", "m", "/", "7", "?", "q", "=", "1", "&", "i", "=", "9">>
  /\ RouteFound
  /\ ParsedUrl.queryParams = (<<"q">> :> <<"1">>) @@ (<<"i">> :> <<"9">>)
  /\ conn.req.params = << (<<"q">> :> <<"1">>) @@ (<<"i">> :> <<"7">>) >>

\* C7: a request that matches no registered route of its method ends at the
\* lookup with 404, "Route <METHOD> <path> not found" and details =
\* {method, path}, path being the URL without its query string; neither
\* validator, body read, middleware nor handler is invoked.
C7_NotFound ==
  (Served /\ ~RouteMatches) =>
    /\ ErrorResponse(HttpStatusNotFound,
                     <<"Route ", conn.req.method, " ">> \o PathOf(conn.req.url)
                       \o <<" not found">>)
    /\ conn.res.body[1].details
         = <<[method |-> conn.req.method, path |-> PathOf(conn.req.url)]>>
    /\ ~LogHas({"queryValidator", "getRequestBody", "bodyValidator", "middleware",
                "handler"})

\* C7's case: /p is registered under POST and requested as GET /p?q=1
C7_Witness ==
  /\ conn.req.method = "GET"
  /\ conn.req.url = <<"/", "p", "?", "q", "=", "1">>
  /\ \E i \in 1..Len(registered) :
       registered[i].method = "POST" /\ registered[i].url = UrlP
  /\ ~RouteMatches
  /\ conn.res.heads = <<HttpStatusNotFound>>

BodyMethod == conn.req.method \in {"POST", "PUT", "PATCH"}

\* the body text is not valid JSON
MalformedBody == conn.req.bodyText # "" /\ JSONparse(conn.req.bodyText).threw

\* the query string decodes and the route's query validator, if any, finds
\* no error in the merged parameters
QueryStagePasses ==
  /\ ~ParsedUrl.threw
  /\ \/ conn.found.metadata[1].queryValidator = <<>>
     \/ validate(conn.found.metadata[1].queryValidator[1], StringMap(MergedParams)) = <<>>

\* C8 as stated: a POST, PUT or PATCH request on a matched route with a body
\* that is not valid JSON is answered 400 "Error parsing body", and neither
\* body validator, middleware nor handler is invoked.
C8_Original ==
  (Served /\ BodyMethod /\ RouteFound /\ MalformedBody) =>
    /\ ~LogHas({"bodyValidator", "middleware", "handler"})
    /\ conn.pc = "done" =>
         ErrorResponse(HttpStatusBadRequest, <<"Error parsing body">>)

\* C8 as amended: the same, for the requests that pass parameter extraction
\* and query validation, the stages before the body read.
C8_MalformedBody ==
  (Served /\ BodyMethod /\ RouteFound /\ MalformedBody /\ QueryStagePasses) =>
    /\ conn.pc \in {"awaitBody", "done"}
    /\ ~LogHas({"bodyValidator", "middleware", "handler"})
    /\ conn.pc = "done" =>
         ErrorResponse(HttpStatusBadRequest, <<"Error parsing body">>)

\* C8's case: a malformed body on a route with a body validator and a
\* middleware, answered 400 "Error parsing body"
C8_Witness ==
  /\ BodyMethod /\ RouteFound /\ MalformedBody
  /\ conn.found.metadata[1].bodyValidator # <<>>
  /\ conn.found.metadata[1].composedMiddleware # <<>>
  /\ LogHas({"getRequestBody"})
  /\ ErrorResponse(HttpStatusBadRequest, <<"Error parsing body">>)

\* C9: the matched route's query validator is applied to the query and path
\* parameters together; if it reports errors the response is 400 "Query
\* validation failed" with those errors, and neither body read, body
\* validator, middleware nor handler happens.
C9_QueryValidation ==
  (Served /\ RouteFound /\ conn.found.metadata[1].queryValidator # <<>>
     /\ ~ParsedUrl.threw) =>
    LET queryErrors == validate(conn.found.metadata[1].queryValidator[1],
                                StringMap(MergedParams))
    IN  /\ LogHas({"queryValidator"})
        /\ queryErrors # <<>> =>
             /\ ErrorResponse(HttpStatusBadRequest, <<"Query validation failed">>)
             /\ conn.res.body[1].errors = <<queryErrors>>
             /\ ~LogHas({"getRequestBody", "bodyValidator", "middleware", "handler"})
        /\ queryErrors = <<>> =>
             ~(conn.res.body # <<>>
               /\ conn.res.body[1].message = <<"Query validation failed">>)

\* C9's case: a POST without the required query parameter q, rejected
\* before its body is read
C9_Witness ==
  /\ conn.req.method = "POST"
  /\ RouteFound
  /\ conn.found.metadata[1].queryValidator = <<RequireQ>>
  /\ conn.found.metadata[1].requiresBody
  /\ ErrorResponse(HttpStatusBadRequest, <<"Query validation failed">>)
  /\ Len(conn.res.body[1].errors[1]) = 1
  /\ ~LogHas({"getRequestBody"})

\* C10 as stated: on a route with a body validator, a body read
\* successfully, whatever JSON value it parsed to, is validated; middleware
\* and handler run only if the validator reported no error, otherwise the
\* response is 400 "Body validation failed" with the errors.
C10_BodyValidated ==
  (Served /\ RouteFound /\ conn.found.metadata[1].bodyValidator # <<>>
     /\ conn.req.body # <<>>) =>
    LET bodyErrors == validate(conn.found.metadata[1].bodyValidator[1], conn.req.body[1])
    IN  /\ LogHas({"bodyValidator"})
        /\ LogHas({"middleware", "handler"}) => bodyErrors = <<>>
        /\ bodyErrors # <<>> =>
             /\ ErrorResponse(HttpStatusBadRequest, <<"Body validation failed">>)
             /\ conn.res.body[1].errors = <<bodyErrors>>

\* the matched route was registered under POST, PUT or PATCH
RouteBodyMethod == conn.found.metadata[1].method \in {"POST", "PUT", "PATCH"}

\* the position of the first call of one of these kinds, 0 if there is none
FirstEvent(events) ==
  IF LogHas(events)
    THEN CHOOSE i \in 1..Len(conn.log) :
           /\ conn.log[i].ev \in events
           /\ \A j \in 1..(i - 1) : conn.log[j].ev \notin events
    ELSE 0

\* the position of the last call of one of these kinds, 0 if there is none
LastEvent(events) ==
  IF LogHas(events)
    THEN CHOOSE i \in 1..Len(conn.log) :
           /\ conn.log[i].ev \in events
           /\ \A j \in (i + 1)..Len(conn.log) : conn.log[j].ev \notin events
    ELSE 0

\* C11 as stated: on a matched route the body is read exactly when the
\* route's method is POST, PUT or PATCH; it is then read before any
\* middleware or handler runs and an empty body reads as {}; for any other
\* method the body is never read and req.body stays unset.
C11_Original ==
  (Served /\ RouteFound) =>
    /\ LogHas({"getRequestBody"}) <=> RouteBodyMethod
    /\ (RouteBodyMethod /\ LogHas({"middleware", "handler"})) =>
         /\ conn.req.body # <<>>
         /\ FirstEvent({"getRequestBody"}) < FirstEvent({"middleware", "handler"})
    /\ (RouteBodyMethod /\ conn.req.bodyText = "" /\ conn.pc # "awaitBody") =>
         conn.req.body = <<JObject(EmptyObject)>>
    /\ ~RouteBodyMethod => conn.req.body = <<>>

\* C11 as amended: the same for the requests that pass parameter extraction
\* and query validation; a request rejected there never has its body read.
C11_BodyRead ==
  (Served /\ RouteFound) =>
    /\ LogHas({"getRequestBody"}) <=> (RouteBodyMethod /\ QueryStagePasses)
    /\ (RouteBodyMethod /\ LogHas({"middleware", "handler"})) =>
         /\ conn.req.body # <<>>
         /\ FirstEvent({"getRequestBody"}) < FirstEvent({"middleware", "handler"})
    /\ (RouteBodyMethod /\ QueryStagePasses /\ conn.req.bodyText = ""
          /\ conn.pc # "awaitBody") =>
         conn.req.body = <<JObject(EmptyObject)>>
    /\ ~RouteBodyMethod => conn.req.body = <<>>

\* C11's case: a POST request with an empty body whose middlewares and
\* handler ran with req.body = {}
C11_Witness ==
  /\ RouteFound
  /\ conn.found.metadata[1].method = "POST"
  /\ conn.req.bodyText = ""
  /\ conn.req.body = <<JObject(EmptyObject)>>
  /\ LogHas({"middleware"})
  /\ LogHas({"handler"})
  /\ conn.pc = "done"

\* the registered route the request matched: the one of the request's
\* method whose pattern fits the request's path segment by segment
PatternFits(routeUrl, url) ==
  LET pattern == SpecSegments(routeUrl)
      segments == SpecSegments(url)
  IN  /\ Len(pattern) = Len(segments)
      /\ \A p \in 1..Len(pattern) :
           IsParamText(pattern[p]) \/ pattern[p] = segments[p]

MatchedRoute ==
  registered[CHOOSE i \in 1..Len(registered) :
               /\ registered[i].method = conn.req.method
               /\ PatternFits(registered[i].url, conn.req.url)]

\* the middlewares the matched route was registered with
MatchedMiddlewares ==
  IF MatchedRoute.middlewares = <<>> THEN <<>> ELSE MatchedRoute.middlewares[1]

\* the position in the log of the call of this kind with this id, 0 if none
EventAt(ev, id) ==
  IF \E j \in 1..Len(conn.log) : conn.log[j] = [ev |-> ev, id |-> id]
    THEN CHOOSE j \in 1..Len(conn.log) : conn.log[j] = [ev |-> ev, id |-> id]
    ELSE 0

\* the middleware was called and threw, or its promise rejected
Failed(middleware) ==
  \/ middleware.outcome.kind = "throws" /\ EventAt("middleware", middleware.id) > 0
  \/ middleware.outcome.kind = "rejects"
       /\ EventAt("middlewareSettled", middleware.id) > 0

\* an instance of MuzuException or of one of its subclasses
IsStructured(error) ==
  error.class \in {"MuzuException", "NotFoundException", "BadRequestException",
                   "ValidationException", "HttpException"}

\* C12: when a middleware throws a structured exception the handler is never
\* invoked and the response carries the exception's status, message and
\* details; a middleware throwing HttpException(403, 'Unauthorized') yields
\* a 403 response.
C12_MiddlewareAborts ==
  (Served /\ RouteFound) =>
    \A i \in 1..Len(MatchedMiddlewares) :
      LET thrown == MatchedMiddlewares[i].outcome.error
      IN  (Failed(MatchedMiddlewares[i]) /\ IsStructured(thrown)) =>
            /\ ~LogHas({"handler"})
            /\ ErrorResponse(thrown.status, thrown.message)
            /\ conn.res.body[1].details = thrown.details
            /\ MatchedMiddlewares[i] = MiddlewareForbid =>
                 conn.res.heads = <<403>>

\* C12's case: the second of three middlewares threw HttpException(403),
\* after the first one's promise resolved
C12_Witness ==
  /\ RouteFound
  /\ MatchedMiddlewares = <<MiddlewareAsync, MiddlewareForbid, Middleware2>>
  /\ EventAt("middlewareSettled", "ma") > 0
  /\ EventAt("middleware", "mf") > EventAt("middlewareSettled", "ma")
  /\ conn.res.heads = <<403>>
  /\ conn.res.body[1].message = <<"Unauthorized">>
  /\ conn.res.body[1].details = <<JObject(<<"m">> :> JNumber(1))>>
  /\ ~LogHas({"handler"})

IsMiddlewareCall(event) == event.ev = "middleware"

\* the ids of the middlewares called so far, in call order
MiddlewareCalls ==
  LET calls == SelectSeq(conn.log, IsMiddlewareCall)
  IN  [k \in 1..Len(calls) |-> calls[k].id]

\* C13: two or more middlewares are invoked in registration order, each one
\* only after the one before has returned and, if it returned a promise,
\* after that promise resolved; after the first throw or rejection no later
\* middleware is invoked; no composed step is attached for zero middlewares
\* and the middleware itself is used for exactly one.
C13_MiddlewareOrder ==
  (Served /\ RouteFound) =>
    LET ms == MatchedMiddlewares
        composed == conn.found.metadata[1].composedMiddleware
        n == Len(MiddlewareCalls)
    IN  /\ Len(ms) = 0 => composed = <<>>
        /\ Len(ms) = 1 => composed # <<>> /\ composed[1] = [kind |-> "single", mws |-> ms]
        /\ Len(ms) >= 2 => composed # <<>> /\ composed[1].kind = "composed"
        /\ n <= Len(ms)
        /\ \A k \in 1..n : MiddlewareCalls[k] = ms[k].id
        /\ \A k \in 1..(n - 1) :
             /\ ms[k].outcome.kind \in {"returns", "resolves"}
             /\ ms[k].outcome.kind = "resolves" =>
                  /\ EventAt("middlewareSettled", ms[k].id) > EventAt("middleware", ms[k].id)
                  /\ EventAt("middlewareSettled", ms[k].id)
                       < EventAt("middleware", ms[k + 1].id)
        /\ \A k \in 1..n :
             Failed(ms[k]) => n = k /\ conn.pc \in {"done", "rejected"}

\* C13's case: three middlewares, the second one async, all called in order
\* before the handler
C13_Witness ==
  /\ RouteFound
  /\ MatchedMiddlewares = <<Middleware1, MiddlewareAsync, Middleware2>>
  /\ MiddlewareCalls = <<"m1", "ma", "m2">>
  /\ EventAt("middlewareSettled", "ma") < EventAt("middleware", "m2")
  /\ EventAt("handler", "h1") > EventAt("middleware", "m2")

\* the handler of the matched route was called
HandlerCalled == EventAt("handler", MatchedRoute.handler.id) > 0

\* the handler was called and threw, or the promise awaited of it rejected
HandlerFailed ==
  \/ HandlerCalled /\ MatchedRoute.handler.outcome.kind = "throws"
  \/ MatchedRoute.handler.outcome.kind = "rejects"
       /\ EventAt("handlerSettled", MatchedRoute.handler.id) > 0

\* C14 as stated: once the handler is invoked, its result is awaited exactly
\* when the route's isAsync flag is true; the response is written only after
\* every promise of a middleware or of the handler has settled; the response
\* body is the JSON text of the value the handler returned or resolved to.
C14_AwaitHandler ==
  (Served /\ RouteFound /\ HandlerCalled) =>
    LET handler == MatchedRoute.handler
        promised == handler.outcome.kind \in {"resolves", "rejects"}
    IN  /\ handler.outcome.kind # "throws" =>
             ((conn.pc = "awaitHandler" \/ EventAt("handlerSettled", handler.id) > 0)
                <=> conn.found.metadata[1].isAsync)
        /\ LogHas({"writeHead"}) =>
             /\ promised =>
                  /\ EventAt("handlerSettled", handler.id) > 0
                  /\ EventAt("handlerSettled", handler.id) < FirstEvent({"writeHead"})
             /\ \A i \in 1..Len(MatchedMiddlewares) :
                  MatchedMiddlewares[i].outcome.kind \in {"resolves", "rejects"} =>
                    /\ EventAt("middlewareSettled", MatchedMiddlewares[i].id) > 0
                    /\ EventAt("middlewareSettled", MatchedMiddlewares[i].id)
                         < FirstEvent({"writeHead"})
        /\ (conn.pc = "done" /\ handler.outcome.kind \in {"returns", "resolves"}) =>
             /\ conn.res.body[1].kind = "result"
             /\ conn.res.json = JSONstringify(handler.outcome.value).text

\* the place of a call in the pipeline
StageRank(ev) ==
  CASE ev = "find" -> 1
    [] ev = "queryValidator" -> 2
    [] ev = "getRequestBody" -> 3
    [] ev = "bodyValidator" -> 4
    [] ev \in {"middleware", "middlewareSettled"} -> 5
    [] ev \in {"handler", "handlerSettled"} -> 6
    [] ev = "writeHead" -> 7
    [] OTHER -> 8

\* the position in the log of the call of the stage that threw, 0 if no
\* stage threw so far
FailureAt ==
  IF ~RouteFound THEN EventAt("find", "")
  ELSE IF ParsedUrl.threw THEN EventAt("find", "")
  ELSE IF LogHas({"queryValidator"})
            /\ validate(conn.found.metadata[1].queryValidator[1],
                        StringMap(MergedParams)) # <<>>
    THEN EventAt("queryValidator", "")
  ELSE IF LogHas({"getRequestBody"}) /\ conn.pc # "awaitBody" /\ MalformedBody
    THEN EventAt("getRequestBody", "")
  ELSE IF LogHas({"bodyValidator"})
            /\ validate(conn.found.metadata[1].bodyValidator[1], conn.req.body[1]) # <<>>
    THEN EventAt("bodyValidator", "")
  ELSE IF \E i \in 1..Len(MatchedMiddlewares) : Failed(MatchedMiddlewares[i])
    THEN LastEvent({"middleware", "middlewareSettled"})
  ELSE IF HandlerFailed THEN LastEvent({"handler", "handlerSettled"})
  ELSE IF /\ HandlerCalled
          /\ conn.pc \in {"done", "rejected"}
          /\ MatchedRoute.handler.outcome.kind \in {"returns", "resolves"}
          /\ JSONstringify(MatchedRoute.handler.outcome.value).threw
    THEN LastEvent({"handler", "handlerSettled"})
  ELSE 0

\* C15 as stated: the stages run in pipeline order and none twice; once a
\* stage has thrown, response serialization included, no later stage runs
\* and the one thing written is the error response: no head of a success
\* response precedes it.
C15_FailFast ==
  Served =>
    /\ \A i, j \in 1..Len(conn.log) :
         i < j => /\ StageRank(conn.log[i].ev) <= StageRank(conn.log[j].ev)
                  /\ conn.log[i] # conn.log[j]
    /\ FailureAt > 0 =>
         /\ conn.pc = "done"
         /\ SubSeq(conn.log, FailureAt + 1, Len(conn.log))
              = <<[ev |-> "writeHead", id |-> ""], [ev |-> "end", id |-> ""]>>
         /\ Len(conn.res.heads) = 1
         /\ conn.res.heads[1] >= 400
         /\ conn.res.ended = 1

\* the values middlewares and handler have thrown at the dispatcher so far
CaughtErrors ==
  {MatchedMiddlewares[i].outcome.error :
     i \in {k \in 1..Len(MatchedMiddlewares) : Failed(MatchedMiddlewares[k])}}
  \cup (IF HandlerFailed THEN {MatchedRoute.handler.outcome.error} ELSE {})

\* the response of status 500 with the generic message
GenericResponse ==
  /\ conn.pc = "done"
  /\ conn.res.heads = <<HttpStatusInternalServerError>>
  /\ conn.res.ended = 1
  /\ conn.res.body[1].kind # "MuzuException"
  /\ conn.res.body[1].message = <<"Internal Server Error">>

\* C16 as stated: a caught MuzuException, or instance of a subclass, is sent
\* with its own status; every other caught value is sent as status 500 with
\* the generic message.
C16_ErrorBoundary ==
  (Served /\ RouteFound) =>
    /\ ParsedUrl.threw => GenericResponse
    /\ \A error \in CaughtErrors :
         IF IsStructured(error)
           THEN ErrorResponse(error.status, error.message)
           ELSE GenericResponse

(***************************************************************************)
(* The path parser's claims, on the latest call of a parser closure.       *)
(***************************************************************************)
\* the text of a URL after its first '?', empty if it has none
QueryOf(url) == SubSeq(url, Len(PathOf(url)) + 2, Len(url))

HasEquals(pair) == \E i \in 1..Len(pair) : pair[i] = "="

FirstEquals(pair) ==
  CHOOSE i \in 1..Len(pair) : pair[i] = "=" /\ \A j \in 1..(i - 1) : pair[j] # "="

\* a pair's key: the pair itself without '=', else what precedes its first '='
PairKey(pair) ==
  IF HasEquals(pair) THEN SubSeq(pair, 1, FirstEquals(pair) - 1) ELSE pair

\* a pair's raw value: what follows its first '=', empty without '='
PairText(pair) ==
  IF HasEquals(pair) THEN SubSeq(pair, FirstEquals(pair) + 1, Len(pair)) ELSE <<>>

\* the pairs that are not dropped
KeptPairs(pairs) == {i \in 1..Len(pairs) : PairKey(pairs[i]) # <<>>}

\* some kept pair has a value that is no percent-encoding
UndecodablePair(pairs) ==
  \E i \in KeptPairs(pairs) :
    PairText(pairs[i]) # <<>> /\ decodeURIComponent(PairText(pairs[i])).threw

\* the map the claim describes: each kept key with the value of its last pair
ExpectedQuery(pairs) ==
  [k \in {PairKey(pairs[i]) : i \in KeptPairs(pairs)} |->
     LET last == CHOOSE i \in KeptPairs(pairs) :
                   /\ PairKey(pairs[i]) = k
                   /\ \A j \in KeptPairs(pairs) : PairKey(pairs[j]) = k => j <= i
     IN  IF PairText(pairs[last]) = <<>> THEN <<>>
         ELSE decodeURIComponent(PairText(pairs[last])).value]

\* C17: the query-parsing closure returns the URL up to its first '?' as the
\* path and, of the '&'-separated pairs after it, each non-empty key (the
\* whole pair without '=', else the text before its first '=') with the
\* value of its last pair: empty without '=' or with nothing after it, else
\* the percent-decoded text; the closure throws exactly when such a text
\* does not decode.
C17_QueryParsing ==
  (lastCall.op = "pathParser" /\ lastCall.hasQueryParams) =>
    LET pairs == split(QueryOf(lastCall.url), "&")
    IN  /\ lastCall.parsed.path = PathOf(lastCall.url)
        /\ lastCall.parsed.threw <=> UndecodablePair(pairs)
        /\ ~lastCall.parsed.threw => lastCall.parsed.queryParams = ExpectedQuery(pairs)

\* C17's case: "/s?a=1&a=%41": a duplicate key whose last value is decoded
C17_Witness ==
  /\ lastCall.op = "pathParser"
  /\ lastCall.hasQueryParams
  /\ lastCall.url = <<"/", "s", "?", "a", "=", "1", "&", "a", "=", "%", "4", "1">>
  /\ lastCall.parsed.queryParams = (<<"a">> :> <<"A">>)

\* the path parameters of the request: each parametric segment of the
\* matched route's pattern bound to the request's segment at its place
PathParams ==
  LET pattern == SpecSegments(MatchedRoute.url)
      segments == SpecSegments(conn.req.url)
      places == {p \in 1..Len(pattern) : IsParamText(pattern[p])}
  IN  [name \in {Tail(pattern[p]) : p \in places} |->
         segments[CHOOSE p \in places : Tail(pattern[p]) = name]]

\* C18: a hasQueryParams flag given at registration decides whatever the
\* handler's text says: with false the query string is dropped unparsed and
\* req.params holds the path parameters only, with true the query string is
\* parsed; the handler's text decides only when no flag is given.
C18_ExplicitFlag ==
  (Served /\ RouteFound) =>
    LET flag == MatchedRoute.hasQueryParams
        pairs == split(QueryOf(conn.req.url), "&")
    IN  /\ flag = <<FALSE>> =>
             /\ ~conn.found.metadata[1].hasQueryParams
             /\ conn.req.params = <<PathParams>>
        /\ flag = <<TRUE>> =>
             /\ conn.found.metadata[1].hasQueryParams
             /\ ~UndecodablePair(pairs) =>
                  /\ conn.req.params # <<>>
                  /\ \A k \in DOMAIN ExpectedQuery(pairs) \ DOMAIN PathParams :
                       /\ k \in DOMAIN conn.req.params[1]
                       /\ conn.req.params[1][k] = ExpectedQuery(pairs)[k]
        /\ flag = <<>> =>
             conn.found.metadata[1].hasQueryParams = MatchedRoute.handler.srcParams

\* C18's case: a route registered with the flag false and a handler whose
\* text mentions req.params, requested with a query string
C18_Witness ==
  /\ RouteFound
  /\ MatchedRoute.hasQueryParams = <<FALSE>>
  /\ MatchedRoute.handler.srcParams
  /\ conn.req.url = <<"/", "m", "/", "7", "?", "q", "=", "1", "&", "i", "=", "9">>
  /\ conn.req.params = << (<<"i">> :> <<"7">>) >>
  /\ conn.pc = "done"

\* a validator has been compiled and run, and has returned its result
Validated == lastCall.op = "validate" /\ lastCall.compiled /\ ~lastCall.threw

Nullish(value) == value.t \in {"undefined", "null"}

HasRule(rules, constraint) == \E i \in 1..Len(rules) : rules[i].constraint = constraint

\* the value breaks the rule (an arrayItem rule is treated apart)
Violated(rule, value) ==
  CASE rule.constraint = "isRequired" -> Nullish(value)
    [] rule.constraint = "isString" -> value.t # "string"
    [] rule.constraint = "isNumber" -> value.t # "number"
    [] rule.constraint = "isPositive" -> value.t # "number" \/ value.v <= 0
    [] rule.constraint = "isNegative" -> value.t # "number" \/ value.v >= 0
    [] rule.constraint = "min" -> value.t = "number" /\ value.v < rule.value
    [] rule.constraint = "max" -> value.t = "number" /\ value.v > rule.value
    [] rule.constraint = "minLength" -> value.t = "string" /\ Len(value.v) < rule.value
    [] OTHER -> FALSE

\* the field is optional, not required, and its value is null or undefined
Skipped(rules, value) ==
  HasRule(rules, "isOptional") /\ ~HasRule(rules, "isRequired") /\ Nullish(value)

\* the <<field, constraint>> pairs of a list of errors
ErrorKeys(errors) == [i \in 1..Len(errors) |-> <<errors[i].field, errors[i].constraint>>]

ItemField(prop, i, field) == prop \o <<"[">> \o DigitsOf(i - 1) \o <<"]", ".">> \o field

\* the <<field, constraint>> pairs expected of a validator of the class dto on
\* obj: per property in declaration order, per rule in insertion order, one
\* pair per violated rule and, for an arrayItem rule on an array, the pairs of
\* its items in item order; with requiredFirst the isRequired pair leaves its
\* place in the insertion order and leads its field
RECURSIVE ExpectedErrors(_, _, _)
ExpectedErrors(dto, obj, requiredFirst) ==
  LET RuleExpected(prop, rule, value) ==
        IF rule.constraint = "arrayItem"
          THEN IF value.t = "array"
                 THEN Concat([i \in 1..Len(value.v) |->
                        LET nested == ExpectedErrors(DtoClassOf(rule.value), value.v[i],
                                                    requiredFirst)
                        IN  [k \in 1..Len(nested) |->
                               <<ItemField(prop, i, nested[k][1]), nested[k][2]>>]])
                 ELSE <<>>
        ELSE IF rule.constraint = "isRequired" /\ requiredFirst THEN <<>>
        ELSE IF Violated(rule, value) THEN << <<prop, rule.constraint>> >>
        ELSE <<>>
      FieldExpected(prop, rules, value) ==
        IF Skipped(rules, value) THEN <<>>
        ELSE (IF requiredFirst /\ HasRule(rules, "isRequired") /\ Nullish(value)
                THEN << <<prop, "isRequired">> >> ELSE <<>>)
             \o Concat([i \in 1..Len(rules) |-> RuleExpected(prop, rules[i], value)])
  IN  Concat([p \in 1..Len(dto) |->
                FieldExpected(dto[p].propertyKey, dto[p].rules,
                              GetProperty(obj, dto[p].propertyKey))])

OwnErrors(errors, prop) ==
  SelectSeq(errors, LAMBDA e :
    \/ e.field = prop
    \/ /\ Len(e.field) > Len(prop)
       /\ SubSeq(e.field, 1, Len(prop) + 1) = prop \o <<"[">>)

\* how many errors name the property itself and carry the constraint
CountErrors(errors, prop, constraint) ==
  Cardinality({i \in 1..Len(errors) :
                 errors[i].field = prop /\ errors[i].constraint = constraint})

\* the constraints the model's rule lists draw from, isRequired and
\* isOptional apart
CheckedConstraints ==
  {"isString", "isNumber", "isPositive", "isNegative", "min", "max", "minLength"}

\* how many rules of that constraint the value breaks
CountViolated(rules, constraint, value) ==
  Cardinality({i \in 1..Len(rules) :
                 rules[i].constraint = constraint /\ Violated(rules[i], value)})

\* C20: a required field that is null or undefined gets an isRequired error
\* ahead of its other errors; a field that is optional and not required gets
\* no error when null or undefined and is checked by every other rule
\* otherwise; a field that is both is treated as required.
C20_RequiredOptional ==
  Validated =>
    \A p \in 1..Len(lastCall.dto) :
      LET prop == lastCall.dto[p].propertyKey
          rules == lastCall.dto[p].rules
          value == GetProperty(lastCall.obj, prop)
          own == OwnErrors(lastCall.errors, prop)
      IN  /\ (HasRule(rules, "isRequired") /\ Nullish(value)) =>
                /\ own # <<>>
                /\ own[1].field = prop
                /\ own[1].constraint = "isRequired"
                /\ CountErrors(own, prop, "isRequired") = 1
          /\ (HasRule(rules, "isRequired") /\ ~Nullish(value)) =>
                CountErrors(own, prop, "isRequired") = 0
          /\ (HasRule(rules, "isOptional") /\ ~HasRule(rules, "isRequired")) =>
                IF Nullish(value) THEN own = <<>>
                ELSE \A c \in CheckedConstraints :
                       CountErrors(own, prop, c) = CountViolated(rules, c, value)
          /\ (HasRule(rules, "isOptional") /\ HasRule(rules, "isRequired")) =>
                \A c \in CheckedConstraints :
                  CountErrors(own, prop, c) = CountViolated(rules, c, value)

\* C20's case: a missing field marked optional, required and string gets the
\* isRequired error, then the isString error; a null field marked optional
\* only gets none
C20_Witness ==
  /\ Validated
  /\ lastCall.dto[1].rules =
       <<createValidationDecorator("isOptional", 0), createValidationDecorator("minLength", 2)>>
  /\ lastCall.dto[2].rules =
       << createValidationDecorator("isOptional", 0), createValidationDecorator("isRequired", 0),
          createValidationDecorator("isString", 0) >>
  /\ GetProperty(lastCall.obj, <<"n">>) = JNull
  /\ GetProperty(lastCall.obj, <<"m">>) = JUndefined
  /\ ErrorKeys(lastCall.errors) = << << <<"m">>, "isRequired" >>, << <<"m">>, "isString" >> >>

\* C21 as stated: for a value that is not a number, none of min, max,
\* isPositive and isNegative produces an error. Refuted by isPositive and
\* isNegative, which report every value that is not a number.
C21_Original ==
  Validated =>
    \A p \in 1..Len(lastCall.dto) :
      LET prop == lastCall.dto[p].propertyKey
          value == GetProperty(lastCall.obj, prop)
      IN  value.t # "number" =>
            \A c \in {"min", "max", "isPositive", "isNegative"} :
              CountErrors(lastCall.errors, prop, c) = 0

\* C21: for a value that is not a number, min and max produce no error,
\* while isPositive and isNegative each produce their error (unless the field
\* is optional, not required, and the value null or undefined); for a number
\* each of the four reports exactly the values outside its bound.
C21_NumericBounds ==
  Validated =>
    \A p \in 1..Len(lastCall.dto) :
      LET prop == lastCall.dto[p].propertyKey
          rules == lastCall.dto[p].rules
          value == GetProperty(lastCall.obj, prop)
          Rules(c) == Cardinality({i \in 1..Len(rules) : rules[i].constraint = c})
          Errors(c) == CountErrors(lastCall.errors, prop, c)
      IN  IF value.t # "number"
            THEN /\ Errors("min") = 0
                 /\ Errors("max") = 0
                 /\ Errors("isPositive") =
                      IF Skipped(rules, value) THEN 0 ELSE Rules("isPositive")
                 /\ Errors("isNegative") =
                      IF Skipped(rules, value) THEN 0 ELSE Rules("isNegative")
            ELSE /\ Errors("min") =
                      Cardinality({i \in 1..Len(rules) :
                        rules[i].constraint = "min" /\ value.v < rules[i].value})
                 /\ Errors("max") =
                      Cardinality({i \in 1..Len(rules) :
                        rules[i].constraint = "max" /\ value.v > rules[i].value})
                 /\ Errors("isPositive") = IF value.v > 0 THEN 0 ELSE Rules("isPositive")
                 /\ Errors("isNegative") = IF value.v < 0 THEN 0 ELSE Rules("isNegative")

\* C21's case: a string checked by min and isPositive gets the isPositive
\* error only
C21_Witness ==
  /\ Validated
  /\ lastCall.dto[1].rules =
       <<createValidationDecorator("min", 1), createValidationDecorator("isPositive", 0)>>
  /\ GetProperty(lastCall.obj, <<"n">>) = JString(<<"v">>)
  /\ GetProperty(lastCall.obj, <<"m">>) = JUndefined
  /\ lastCall.dto[2].rules = <<>>
  /\ ErrorKeys(lastCall.errors) = << << <<"n">>, "isPositive" >> >>

\* the errors a result holds for the items of an array property
ItemErrors(errors, prop) ==
  SelectSeq(errors, LAMBDA e :
    /\ Len(e.field) > Len(prop)
    /\ SubSeq(e.field, 1, Len(prop) + 1) = prop \o <<"[">>)

\* the errors of the nested validator on the i-th item, under the field name
\* <prop>[<i - 1>].<nested field>
Renamed(prop, itemDto, items, i) ==
  LET nested == validate(compileValidator(DtoClassOf(itemDto)), items[i])
  IN  [k \in 1..Len(nested) |->
         [nested[k] EXCEPT !.field = ItemField(prop, i, nested[k].field)]]

\* C22: for a field with an arrayItem rule and an array value the validator
\* returns, for every item in turn, the nested validator's errors under the
\* field name <field>[<index>].<nestedField> with constraint, value and
\* message kept; for a value that is no array the rule gives no error.
C22_ArrayItem ==
  (lastCall.op = "validate" /\ lastCall.compiled) =>
    \A p \in 1..Len(lastCall.dto) :
      LET prop == lastCall.dto[p].propertyKey
          rules == lastCall.dto[p].rules
          value == GetProperty(lastCall.obj, prop)
      IN  \A r \in 1..Len(rules) :
            rules[r].constraint = "arrayItem" =>
              IF value.t = "array"
                THEN /\ ~lastCall.threw
                     /\ ItemErrors(lastCall.errors, prop) =
                          Concat([i \in 1..Len(value.v) |->
                                    Renamed(prop, rules[r].value, value.v, i)])
                ELSE ItemErrors(lastCall.errors, prop) = <<>>

\* the routes of the controller whose POST body validator and GET query
\* validator fail to compile are the ones registered
ControllerRegistered == registered = processController(ValidatedController, <<>>)

\* C23: when the validator of a route fails to compile, that route and the
\* controller's other routes are registered all the same, and the route is
\* served without that validator: its requests reach the middleware and the
\* handler unvalidated, while a route whose validator compiled keeps it.
C23_GracefulDegradation ==
  ControllerRegistered =>
    /\ Len(registered) = 3
    /\ \A i \in 1..Len(registered) :
         /\ registered[i].queryValidator = <<>>
         /\ registered[i].bodyValidator # <<>> <=> registered[i].method = "PUT"
    /\ (Served /\ RouteFound) =>
         /\ conn.found.metadata[1].queryValidator = <<>>
         /\ conn.found.metadata[1].bodyValidator # <<>> <=> conn.req.method = "PUT"
         /\ ~LogHas({"queryValidator"})
         /\ conn.req.method # "PUT" => ~LogHas({"bodyValidator"})
         /\ (conn.req.method = "POST" /\ conn.req.body # <<>> /\ conn.pc = "done") =>
              /\ EventAt("middleware", "m1") > 0
              /\ HandlerCalled
              /\ conn.res.heads = <<HttpStatusOK>>
         /\ (conn.req.method = "PUT" /\ conn.req.bodyText = "{}" /\ conn.pc = "done") =>
              ErrorResponse(HttpStatusBadRequest, <<"Body validation failed">>)

\* C23's case: POST /p with the body {}, on the route whose body validator
\* failed to compile, is answered by the handler
C23_Witness ==
  /\ ControllerRegistered
  /\ RouteFound
  /\ conn.req.method = "POST"
  /\ conn.req.bodyText = "{}"
  /\ conn.pc = "done"
  /\ HandlerCalled
  /\ conn.res.heads = <<HttpStatusOK>>

\* C30: compileValidator returns a validator for every DTO class, also for
\* one whose arrayItem thunk yields the class itself, and the validator it
\* returns reports the violations of the items at every nesting depth.
C30_CompileTerminates ==
  lastCall.op = "validate" =>
    /\ lastCall.compiled
    /\ ~lastCall.threw =>
         ErrorKeys(lastCall.errors) = ExpectedErrors(lastCall.dto, lastCall.obj, TRUE)

\* the parametric children of node n of a trie
ParamChildren(tree, n) ==
  {c \in DOMAIN tree :
     /\ Len(c) = Len(n) + 1
     /\ SubSeq(c, 1, Len(n)) = n
     /\ tree[c].type = PARAM}

Fitting ==
  {i \in 1..Len(registered) :
     /\ registered[i].method = lastCall.method
     /\ PatternFits(registered[i].url, lastCall.url)}

\* the looked-up path stops short of a registered route of its method, or
\* runs past one
PrefixOrExtension ==
  \E i \in 1..Len(registered) :
    LET pattern == SpecSegments(registered[i].url)
        segments == SpecSegments(lastCall.url)
        shared == IF Len(pattern) < Len(segments) THEN Len(pattern) ELSE Len(segments)
    IN  /\ registered[i].method = lastCall.method
        /\ Len(pattern) # Len(segments)
        /\ \A p \in 1..shared : IsParamText(pattern[p]) \/ pattern[p] = segments[p]

\* C25: a find call matches exactly when some registered route of the method
\* fits the whole path, segment for segment: a path that stops short of every
\* route it runs along, or runs past it, is no match, and every call without
\* match returns the empty result with an empty params map.
C25_TerminalMatch ==
  lastCall.op = "find" =>
    /\ lastCall.result.metadata # <<>> <=> Fitting # {}
    /\ Fitting = {} => lastCall.result = [metadata |-> <<>>, params |-> EmptyObject]
    /\ lastCall.result.metadata # <<>> =>
         /\ HasLookedTree
         /\ \E n \in DOMAIN LookedTree :
              /\ Len(n) = Len(SpecSegments(lastCall.url))
              /\ LookedTree[n].metadata = lastCall.result.metadata

\* C25's case: GET /a/:x/c is registered and GET /a/B, which ends on the
\* parametric node, is no match and returns no params
C25_Witness ==
  /\ lastCall.op = "find"
  /\ lastCall.method = "GET"
  /\ lastCall.url = <<"/", "a", "/", "B">>
  /\ PrefixOrExtension
  /\ Fitting = {}
  /\ HasLookedTree
  /\ << <<"a">>, PARAM_KEY >> \in DOMAIN LookedTree
  /\ LookedTree[<< <<"a">>, PARAM_KEY >>].metadata = <<>>
  /\ lastCall.result = [metadata |-> <<>>, params |-> EmptyObject]

\* the trie the request was looked up in and the chain of nodes it matched
ServedTree == trees[treeIndex(trees, conn.req.method)].tree

ServedChain == Preferred(ServedTree, <<>>, SpecSegments(conn.req.url), 0)

\* the depths of the matched chain that hold a parametric node
ParamDepths == {d \in 1..Len(ServedChain) : ServedChain[d] = PARAM_KEY}

\* C28: the params of a successful search hold, for each parametric node of
\* the matched chain, a binding of the node's name to the request segment at
\* its depth, one key per node, and nothing else: backtracking leaves no
\* binding of an abandoned branch and takes none of the matched chain away.
C28_ExactBindings ==
  (Served /\ RouteFound) =>
    LET params == conn.found.params
        segs == SpecSegments(conn.req.url)
        name(d) == ServedTree[SubSeq(ServedChain, 1, d)].paramName[1]
    IN  /\ \A d \in ParamDepths : name(d) \in DOMAIN params /\ params[name(d)] = segs[d]
        /\ \A k \in DOMAIN params : \E d \in ParamDepths : name(d) = k
        /\ Cardinality(DOMAIN params) = Cardinality(ParamDepths)

\* the calls of the log follow the order of the stages
StagesInOrder ==
  \A i \in 1..Len(conn.log) : \A j \in i..Len(conn.log) :
    StageRank(conn.log[i].ev) <= StageRank(conn.log[j].ev)

\* every middleware of the matched route was called, and settled where it
\* returned a promise, before the handler was called
MiddlewareCompleted ==
  \A k \in 1..Len(MatchedMiddlewares) :
    LET middleware == MatchedMiddlewares[k]
    IN  /\ 0 < EventAt("middleware", middleware.id)
        /\ EventAt("middleware", middleware.id) < FirstEvent({"handler"})
        /\ middleware.outcome.kind = "resolves" =>
             /\ EventAt("middleware", middleware.id)
                  < EventAt("middlewareSettled", middleware.id)
             /\ EventAt("middlewareSettled", middleware.id) < FirstEvent({"handler"})

\* C26: the calls of one request follow the order lookup, query validation,
\* body read, body validation, middleware, handler, response; a middleware
\* starts only after the route's query validator and, on a route that reads
\* the body, its body validator have been applied and have passed; the
\* handler starts only after every middleware has completed.
C26_StageOrder ==
  (Served /\ RouteFound) =>
    LET metadata == conn.found.metadata[1]
    IN  /\ StagesInOrder
        /\ conn.log[1].ev = "find"
        /\ LogHas({"middleware"}) =>
             /\ metadata.queryValidator # <<>> =>
                  /\ 0 < FirstEvent({"queryValidator"})
                  /\ FirstEvent({"queryValidator"}) < FirstEvent({"middleware"})
                  /\ validate(metadata.queryValidator[1],
                              StringMap(conn.req.params[1])) = <<>>
             /\ (metadata.bodyValidator # <<>> /\ metadata.requiresBody) =>
                  /\ 0 < FirstEvent({"getRequestBody"})
                  /\ FirstEvent({"getRequestBody"}) < FirstEvent({"bodyValidator"})
                  /\ FirstEvent({"bodyValidator"}) < FirstEvent({"middleware"})
        /\ LogHas({"handler"}) => MiddlewareCompleted

\* handleRequest has run to its end for the request being served: its
\* promise is settled and no continuation of it is left
Settled == conn.pc \in {"done", "rejected"}

\* the response of the request being served is complete: its head was
\* written once and it was ended once
RespondedOnce == Len(conn.res.heads) = 1 /\ conn.res.ended = 1

\* C29: every request whose body stream ends and whose middlewares and
\* handler terminate eventually has its response head written exactly once
\* and its response ended exactly once: the handling of every request comes
\* to its end, at its end the head is written once and the response ended
\* once, and neither happens twice.
C29_EventuallyOneResponse ==
  /\ [](Served => <>Settled)
  /\ [](Settled => RespondedOnce)
  /\ [](Len(conn.res.heads) <= 1 /\ conn.res.ended <= 1)

\* handleRequest resumed at whichever await it is suspended at
Resumed(c) ==
  CASE c.pc = "awaitBody" -> AfterBody(c)
    [] c.pc = "awaitMiddlewarePromise" -> AfterMiddlewarePromise(c)
    [] c.pc = "awaitMiddleware" -> AfterMiddleware(c)
    [] c.pc = "awaitHandler" -> AfterHandler(c)
    [] OTHER -> c

RECURSIVE RunFrom(_)
RunFrom(c) == IF Resumed(c) = c THEN {c} ELSE {c} \cup RunFrom(Resumed(c))

\* the states a request passes through when it is served alone on the
\* registered routes
ServedAlone(method, url, bodyText) ==
  RunFrom(handleRequest(NewConn(method, url, bodyText), addRoutes(<<>>, registered)))

\* the requests in flight: the one being served and the suspended ones
InFlight == {conn} \cup {inflight[i] : i \in 1..Len(inflight)}

=============================================================================
